---- MODULE Spec2Model ----
(***************************************************************************)
(* Model of the multi-backend translation ensemble of arabic_pdf_translator *)
(*   utils.py               retry_with_backoff, _is_retryable_error         *)
(*   translator/base.py     TranslationResult, translate_with_timing        *)
(*   translator/ensemble.py TranslationEnsemble.translate, _run_ensemble    *)
(*   quality/evaluator.py   QualityEvaluator.evaluate_translations          *)
(*                                                                         *)
(* Texts are sequences of one-character strings.  Python floats are        *)
(* modelled as exact rationals <<numerator, denominator>>.  Delays are      *)
(* counted in half seconds (1.5 s = 3).                                     *)
(***************************************************************************)
EXTENDS Integers, Sequences, FiniteSets, TLC

VARIABLES
    \* ---- one retry-wrapped adapter call through translate_with_timing ----
    rPc,            \* position: "idle", "try", "sleep", "done"
    rCfg,           \* decorator arguments [max_retries, base_delay, max_delay]
    rText,          \* the text handed to translate_with_timing
    attempt,        \* loop variable of retry_with_backoff.wrapper
    invocations,    \* number of calls of the wrapped function
    sleeps,         \* the delays passed to time.sleep, in order
    history,        \* outcome of every invocation, in order
    last_exception, \* wrapper's last_exception
    raised,         \* the error the wrapper let propagate to its caller
    rResult,        \* the TranslationResult translate_with_timing returned
    \* ---- _is_retryable_error as a pure function ----
    cExc,           \* the exception handed to _is_retryable_error
    cVerdict,       \* its return value ("unset" before the call)
    \* ---- QualityEvaluator.evaluate_translations on one list ----
    ePc,            \* "collect" while the caller builds the list, then "done"
    eSource,        \* source_text
    eTranslations,  \* translations
    eJudgeClient,   \* whether the evaluator's _claude_client is set
    eReply,         \* what the judge answered (if it was asked)
    eResult,        \* the QualityScore returned
    \* ---- TranslationEnsemble.translate ----
    translators,        \* self.translators: the registered method names, in dict order
    enable_ensemble,    \* config.enable_ensemble
    force_multi_method, \* config.force_multi_method
    judgeClient,        \* whether self.evaluator has a judge client
    tPc,                \* "ready", "single", "preferred", "fanout", "done"
    tText,              \* the text handed to translate
    prefPos,            \* position of the loop over preferred_order
    pending,            \* methods whose future as_completed has not yielded yet
    results,            \* _run_ensemble's results list
    translateCalls,     \* per method, how often its translate was called
    evaluatorCalls,     \* how often evaluate_translations was called
    tReply,             \* what the judge answered (if it was asked)
    tReturn,            \* the tuple translate returned
    tContext,           \* translate's context argument
    tCall,              \* how many times translate has been entered
    timeline,           \* history: backend calls started and returned, in order
    neverReturns,       \* the backends whose translate_with_timing never returns
    deadlineElapsed,    \* the wall clock has passed the chunk's time budget
    \* chunk_text
    kPc,                \* "ready", "loop" (inside the while), "done"
    kText,              \* the text argument
    kMaxChars,          \* the max_chars argument
    start,              \* the cursor, as an offset into the text
    chunks,             \* the chunks appended so far
    kReturn,            \* the list chunk_text returned
    \* ArabicPDFTranslator.translate_text
    pPc,                \* "ready", "whole", "loop", "translating", "done"
    arabic_text,        \* the text argument
    pChunks,            \* chunks
    pI,                 \* i, the index of the chunk the loop is at
    all_best_translations,
    all_results_combined,
    last_quality,
    pReturn,            \* the tuple translate_text returned
    chunkReturns,       \* history: what ensemble.translate returned, chunk by chunk
    \* ---- DeepLTranslator.translate_with_timing ----
    dPc,                \* "idle", "try" (inside the retry loop), "done"
    dBackend,           \* self._backend
    dSourceLang,        \* the source_lang argument
    dTargetLang,        \* the target_lang argument
    dAttempt,           \* loop variable of the retry wrapper around translate
    dRequests,          \* history: the requests sent to the DeepL service, in order
    dSleeps,            \* the delays passed to time.sleep, in order
    dResult             \* the TranslationResult translate_with_timing returned

retryVars == <<rPc, rCfg, rText, attempt, invocations, sleeps, history,
               last_exception, raised, rResult>>
classifyVars == <<cExc, cVerdict>>
evalVars == <<ePc, eSource, eTranslations, eJudgeClient, eReply, eResult>>
ensembleVars == <<translators, enable_ensemble, force_multi_method, judgeClient, tPc,
                  tText, prefPos, pending, results, translateCalls, evaluatorCalls,
                  tReply, tReturn, tContext, tCall, timeline, neverReturns,
                  deadlineElapsed>>
chunkVars == <<kPc, kText, kMaxChars, start, chunks, kReturn>>
pipelineVars == <<pPc, arabic_text, pChunks, pI, all_best_translations,
                  all_results_combined, last_quality, pReturn, chunkReturns>>
deeplVars == <<dPc, dBackend, dSourceLang, dTargetLang, dAttempt, dRequests, dSleeps,
               dResult>>
vars == <<retryVars, classifyVars, evalVars, ensembleVars, chunkVars, pipelineVars,
          deeplVars>>
exceptRetry ==
    <<classifyVars, evalVars, ensembleVars, chunkVars, pipelineVars, deeplVars>>
exceptClassify ==
    <<retryVars, evalVars, ensembleVars, chunkVars, pipelineVars, deeplVars>>
exceptEval ==
    <<retryVars, classifyVars, ensembleVars, chunkVars, pipelineVars, deeplVars>>
exceptEnsemble ==
    <<retryVars, classifyVars, evalVars, chunkVars, pipelineVars, deeplVars>>
exceptChunk ==
    <<retryVars, classifyVars, evalVars, ensembleVars, pipelineVars, deeplVars>>
exceptPipeline ==
    <<retryVars, classifyVars, evalVars, chunkVars, deeplVars>>

\* Python's None for a string-valued field; an optional value of any other type is
\* the empty tuple (None) or a one-element tuple.
NONE == "None"
Nil == <<>>
Some(x) == <<x>>

(***************************************************************************)
(* Generic helpers                                                         *)
(***************************************************************************)
Min(a, b) == IF a <= b THEN a ELSE b
Max(a, b) == IF a >= b THEN a ELSE b

RECURSIVE Pow2(_)
Pow2(n) == IF n = 0 THEN 1 ELSE 2 * Pow2(n - 1)

(***************************************************************************)
(* Texts: str.strip(), bool(str)                                           *)
(***************************************************************************)
Whitespace == {" ", "\n", "\t"}

\* The text without its leading and trailing whitespace.
Strip(s) ==
    IF \A i \in 1..Len(s) : s[i] \in Whitespace THEN <<>>
    ELSE SubSeq(s,
                CHOOSE i \in 1..Len(s) :
                    s[i] \notin Whitespace /\ \A j \in 1..(i - 1) : s[j] \in Whitespace,
                CHOOSE i \in 1..Len(s) :
                    s[i] \notin Whitespace /\ \A j \in (i + 1)..Len(s) : s[j] \in Whitespace)

(***************************************************************************)
(* Python floats as exact rationals <<n, d>>, d > 0, in lowest terms       *)
(***************************************************************************)
Abs(n) == IF n < 0 THEN 0 - n ELSE n

RECURSIVE GCD(_, _)
GCD(m, n) == IF n = 0 THEN m ELSE GCD(n, m % n)

\* Every operation binds its operands to their values first (a \in {x}), so that an
\* operand expression is evaluated once however often the result depends on it.
R(n, d) ==
    CHOOSE r \in {<<((IF b < 0 THEN 0 - 1 ELSE 1) * a) \div GCD(Abs(a), Abs(b)),
                    ((IF b < 0 THEN 0 - 1 ELSE 1) * b) \div GCD(Abs(a), Abs(b))>> :
                     a \in {n}, b \in {d}} : TRUE

RInt(n) == <<n, 1>>
\* Sums and comparisons go through the least common denominator, products cancel
\* crosswise first, so that intermediate values stay small.
RAdd(x, y) ==
    CHOOSE r \in {R(a[1] * (b[2] \div GCD(a[2], b[2])) + b[1] * (a[2] \div GCD(a[2], b[2])),
                    (a[2] \div GCD(a[2], b[2])) * b[2]) : a \in {x}, b \in {y}} : TRUE
RNeg(x) == CHOOSE r \in {<<0 - a[1], a[2]>> : a \in {x}} : TRUE
RSub(x, y) == RAdd(x, RNeg(y))
RMul(x, y) ==
    CHOOSE r \in {R((a[1] \div GCD(Abs(a[1]), b[2])) * (b[1] \div GCD(Abs(b[1]), a[2])),
                    (a[2] \div GCD(Abs(b[1]), a[2])) * (b[2] \div GCD(Abs(a[1]), b[2]))) :
                     a \in {x}, b \in {y}} : TRUE
RInv(y) == CHOOSE r \in {IF b[1] < 0 THEN <<0 - b[2], 0 - b[1]>> ELSE <<b[2], b[1]>> :
                            b \in {y}} : TRUE
RDiv(x, y) == RMul(x, RInv(y))
RLt(x, y) ==
    \E a \in {x}, b \in {y} :
        a[1] * (b[2] \div GCD(a[2], b[2])) < b[1] * (a[2] \div GCD(a[2], b[2]))
RLe(x, y) ==
    \E a \in {x}, b \in {y} :
        a[1] * (b[2] \div GCD(a[2], b[2])) <= b[1] * (a[2] \div GCD(a[2], b[2]))
RAbs(x) == CHOOSE r \in {<<Abs(a[1]), a[2]>> : a \in {x}} : TRUE
RMin(x, y) == CHOOSE r \in {IF RLe(a, b) THEN a ELSE b : a \in {x}, b \in {y}} : TRUE
RMax(x, y) == CHOOSE r \in {IF RLe(b, a) THEN a ELSE b : a \in {x}, b \in {y}} : TRUE

RECURSIVE RSum(_)
RSum(xs) == IF xs = <<>> THEN RInt(0) ELSE RAdd(Head(xs), RSum(Tail(xs)))

(***************************************************************************)
(* Texts: str.split(), str.lower(), str.isupper(), re.split, re.findall    *)
(***************************************************************************)
\* The maximal runs of characters outside seps, in order: str.split() for
\* seps = Whitespace, the non-empty pieces of re.split(r'[seps]+', s) otherwise.
RunStarts(s, seps) == {i \in 1..Len(s) : s[i] \notin seps /\ (i = 1 \/ s[i - 1] \in seps)}
RunEnds(s, seps) == {i \in 1..Len(s) : s[i] \notin seps /\ (i = Len(s) \/ s[i + 1] \in seps)}
\* The k-th smallest element of a set of integers
NthOf(set, k) == CHOOSE i \in set : Cardinality({j \in set : j < i}) = k - 1

SplitOn(s, seps) ==
    CHOOSE runs \in {[k \in 1..Cardinality(starts) |->
                         SubSeq(s, NthOf(starts, k), NthOf(ends, k))] :
                        starts \in {RunStarts(s, seps)}, ends \in {RunEnds(s, seps)}} : TRUE

Words(s) == SplitOn(s, Whitespace)

\* len(re.split(r'[seps]+', s)): one more than the number of maximal separator runs.
ReSplitCount(s, seps) ==
    Cardinality({i \in 1..Len(s) : s[i] \in seps /\ (i = 1 \/ s[i - 1] \notin seps)}) + 1

UpperCase == {"H", "T", "W", "A"}
ToLower(c) ==
    CASE c = "H" -> "h" [] c = "T" -> "t" [] c = "W" -> "w" [] c = "A" -> "a"
      [] OTHER -> c
Lower(s) == [i \in 1..Len(s) |-> ToLower(s[i])]

\* [؀-ۿ]; U+060C is the Arabic comma, U+061F the Arabic question mark.
ArabicBlock ==
    {"U+0645", "U+0631", "U+062D", "U+0628", "U+0627", "U+060C", "U+061F"}

CountIn(s, set) == Cardinality({i \in 1..Len(s) : s[i] \in set})

(***************************************************************************)
(* translator/base.py: TranslationResult                                   *)
(***************************************************************************)
TranslationResult(method, text, confidence, error) ==
    [method |-> method, translated_text |-> text,
     confidence |-> confidence, error |-> error]

is_successful(r) == r.error = NONE /\ Strip(r.translated_text) # <<>>

(***************************************************************************)
(* utils.py: _is_retryable_error                                           *)
(* An exception is [sdk, cls, status_code, response]:                      *)
(*   sdk         the package its class comes from ("builtin" for others)   *)
(*   cls         its class name                                            *)
(*   status_code its own status_code attribute, Nil when it has none       *)
(*   response    status_code of its response attribute, Nil when the       *)
(*               exception has no response or the response has no status   *)
(* A present status s is Some(s).                                          *)
(***************************************************************************)
ClientErrorClasses ==
    {"BadRequestError", "AuthenticationError", "PermissionDeniedError",
     "NotFoundError", "UnprocessableEntityError"}

Exc(sdk, cls, status, response) ==
    [sdk |-> sdk, cls |-> cls, status_code |-> status, response |-> response]

\* getattr(exc, 'status_code', None) or getattr(getattr(exc, 'response', None), 'status_code', None)
\* Python's `or` yields its right operand when the left one is falsy (None or 0).
StatusCodeOfFirstOnly(exc) == exc.status_code

StatusCodeOf(exc) ==
    IF exc.status_code # Nil /\ exc.status_code # Some(0)
    THEN exc.status_code
    ELSE exc.response

IsSdkClientError(exc) ==
    /\ exc.sdk \in {"anthropic", "openai"}
    /\ exc.cls \in ClientErrorClasses

IsRetryableError(exc) ==
    IF IsSdkClientError(exc) THEN FALSE
    ELSE IF /\ StatusCodeOf(exc) # Nil
            /\ 400 <= StatusCodeOf(exc)[1]
            /\ StatusCodeOf(exc)[1] < 500
         THEN FALSE
         ELSE TRUE

(***************************************************************************)
(* utils.py: calculate_text_similarity                                     *)
(***************************************************************************)
WordSet(text) == UNION {{words[i] : i \in 1..Len(words)} : words \in {Words(Lower(text))}}

calculate_text_similarity(text1, text2) ==
    LET words1 == WordSet(text1)
        words2 == WordSet(text2)
    IN  IF words1 = {} /\ words2 = {} THEN RInt(1)
        ELSE IF words1 = {} \/ words2 = {} THEN RInt(0)
        ELSE R(Cardinality(words1 \cap words2), Cardinality(words1 \cup words2))

(***************************************************************************)
(* quality/evaluator.py: QualityEvaluator                                  *)
(***************************************************************************)
\* DIMENSION_WEIGHTS, in dict order
Dimensions == <<"accuracy", "fluency", "completeness", "consistency", "cross_agreement">>
DIMENSION_WEIGHTS ==
    [accuracy |-> R(30, 100), fluency |-> R(25, 100), completeness |-> R(25, 100),
     consistency |-> R(10, 100), cross_agreement |-> R(10, 100)]

SourceSentenceEnds == {".", "!", "?", "U+060C", "U+061F", "\n"}
SentenceEnds == {".", "!", "?", "\n"}
FluencySentenceEnds == {".", "!", "?"}

\* [s.strip() for s in sentences if s.strip()]
StripNonEmpty(ss) ==
    CHOOSE valid \in {[k \in 1..Cardinality(keep) |-> Strip(ss[NthOf(keep, k)])] :
                         keep \in {{i \in 1..Len(ss) : Strip(ss[i]) # <<>>}}} : TRUE

RECURSIVE SumInts(_)
SumInts(xs) == IF xs = <<>> THEN 0 ELSE Head(xs) + SumInts(Tail(xs))

\* _assess_fluency once the sentences are split: valid holds the stripped non-empty
\* sentences, lengths their word counts.
FluencyScore(valid, lengths) ==
    LET n == Len(valid)
        total == SumInts(lengths)
        \* avg_len = total / n;  8 <= avg_len <= 25
        goodAvg == 8 * n <= total /\ total <= 25 * n
        \* variance = sum((l - avg_len) ** 2) / n = sum((n*l - total)^2) / n^3
        sqDev == SumInts([i \in 1..n |-> (n * lengths[i] - total) * (n * lengths[i] - total)])
        goodVar == sqDev > 10 * n * n * n
        capitalized == Cardinality({i \in 1..n : valid[i][1] \in UpperCase})
        score == RSum(<<R(75, 100),
                        IF n > 1 /\ goodAvg THEN R(10, 100) ELSE RInt(0),
                        IF n > 1 /\ goodVar THEN R(5, 100) ELSE RInt(0),
                        RMul(R(capitalized, n), R(10, 100))>>)
    IN  IF n = 0 THEN R(3, 10) ELSE RMin(RInt(1), score)

\* _assess_fluency
AssessFluency(text) ==
    CHOOSE score \in {FluencyScore(valid, [i \in 1..Len(valid) |-> Len(Words(valid[i]))]) :
                         valid \in {StripNonEmpty(SplitOn(text, FluencySentenceEnds))}} : TRUE

\* _assess_consistency
AssessConsistency(text) ==
    CHOOSE score \in
        {IF Len(words) < 10 THEN R(8, 10)
         ELSE RMin(RInt(1),
                   RAdd(R(Cardinality({<<words[i], words[i + 1], words[i + 2]>> :
                                          i \in 1..(Len(words) - 2)}),
                          Len(words) - 2),
                        R(1, 10))) :
            words \in {Words(text)}} : TRUE

\* _heuristic_evaluation, the body of its loop for one result
HeuristicDims(source_text, result) ==
    LET text == result.translated_text
        source_len == Len(source_text)
        source_sentences == ReSplitCount(source_text, SourceSentenceEnds)
        length_ratio == IF source_len > 0 THEN R(Len(text), source_len) ELSE RInt(0)
        off == RAbs(RSub(RInt(1), length_ratio))
        lengthScore ==
            IF RLe(R(1, 2), length_ratio) /\ RLe(length_ratio, RInt(2))
            THEN RMin(RInt(1), RSub(RInt(1), RMul(off, R(3, 10))))
            ELSE RMax(R(2, 10), RSub(RInt(1), RMul(off, R(5, 10))))
        trans_sentences == ReSplitCount(text, SentenceEnds)
        sentence_ratio ==
            IF source_sentences > 0 THEN R(trans_sentences, source_sentences) ELSE RInt(1)
        sentence_score ==
            RMin(RInt(1),
                 RSub(RInt(1), RMul(RAbs(RSub(RInt(1), sentence_ratio)), R(4, 10))))
        completeness == RDiv(RAdd(lengthScore, sentence_score), RInt(2))
        arabic_ratio == R(CountIn(text, ArabicBlock), Len(text))
        rawAccuracy == RMax(R(3, 10), RSub(RInt(1), RMul(arabic_ratio, RInt(5))))
        accuracy == RAdd(RMul(rawAccuracy, R(7, 10)), RMul(result.confidence, R(3, 10)))
    IN  IF Strip(text) = <<>>
        THEN [accuracy |-> RInt(0), fluency |-> RInt(0),
              completeness |-> RInt(0), consistency |-> RInt(0)]
        ELSE [accuracy |-> accuracy, fluency |-> AssessFluency(text),
              completeness |-> completeness, consistency |-> AssessConsistency(text)]

CrossAgreementCountingFailed(translations, i) ==
    LET peers == {j \in 1..Len(translations) : j # i}
        RECURSIVE SumSimAll(_)
        SumSimAll(js) ==
            IF js = {} THEN RInt(0)
            ELSE LET j == CHOOSE k \in js : TRUE
                 IN  RAdd(calculate_text_similarity(translations[i].translated_text,
                                                    translations[j].translated_text),
                          SumSimAll(js \ {j}))
    IN  IF ~is_successful(translations[i]) THEN RInt(0)
        ELSE IF peers # {} THEN RDiv(SumSimAll(peers), RInt(Cardinality(peers)))
        ELSE R(5, 10)

\* _cross_agreement_scoring, the body of its outer loop for translations[i]
CrossAgreement(translations, i) ==
    LET peers == {j \in 1..Len(translations) : j # i /\ is_successful(translations[j])}
        RECURSIVE SumSim(_)
        SumSim(js) ==
            IF js = {} THEN RInt(0)
            ELSE LET j == CHOOSE k \in js : TRUE
                 IN  RAdd(calculate_text_similarity(translations[i].translated_text,
                                                    translations[j].translated_text),
                          SumSim(js \ {j}))
    IN  IF ~is_successful(translations[i]) THEN RInt(0)
        ELSE IF peers # {} THEN RDiv(SumSim(peers), RInt(Cardinality(peers)))
        ELSE R(5, 10)

MethodsOf(translations) == {translations[i].method : i \in 1..Len(translations)}

\* The entry of a dict built by assigning d[translations[i].method] in list order:
\* the last assignment to a key stays.
LastIndexOf(translations, m) ==
    CHOOSE i \in 1..Len(translations) :
        /\ translations[i].method = m
        /\ \A j \in (i + 1)..Len(translations) : translations[j].method # m

\* Phase 3: dims = {**h_scores, "cross_agreement": agreement}
DimensionScores(source_text, translations) ==
    [m \in MethodsOf(translations) |->
        LET i == LastIndexOf(translations, m)
            h == HeuristicDims(source_text, translations[i])
        IN  [accuracy |-> h.accuracy, fluency |-> h.fluency,
             completeness |-> h.completeness, consistency |-> h.consistency,
             cross_agreement |-> CrossAgreement(translations, i)]]

\* Weighted combination: total / total_weight
WeightedTotal(dims) ==
    LET total == RSum([k \in 1..Len(Dimensions) |->
                          RMul(dims[Dimensions[k]], DIMENSION_WEIGHTS[Dimensions[k]])])
        total_weight == RSum([k \in 1..Len(Dimensions) |-> DIMENSION_WEIGHTS[Dimensions[k]]])
    IN  IF RLt(RInt(0), total_weight) THEN RDiv(total, total_weight) ELSE RInt(0)

ShouldUseJudgeWheneverTwo(scores) == Cardinality(DOMAIN scores) >= 2

\* _should_use_judge: the two highest scores are less than 0.1 apart
ShouldUseJudge(scores) ==
    /\ Cardinality(DOMAIN scores) >= 2
    /\ \E m1 \in DOMAIN scores :
          /\ \A m \in DOMAIN scores : RLe(scores[m], scores[m1])
          /\ \E m2 \in DOMAIN scores \ {m1} :
                /\ \A m \in DOMAIN scores \ {m1} : RLe(scores[m], scores[m2])
                /\ RLt(RSub(scores[m1], scores[m2]), R(1, 10))

ClaudeJudgeEmptyOnFailure(translations, reply) ==
    LET successful == {i \in 1..Len(translations) : is_successful(translations[i])}
        Normalized(ds) == [k \in 1..Len(ds) |-> R(ds[k], 10)]
    IN  IF Cardinality(successful) < 2 THEN Nil
        ELSE IF reply.kind # "ok"
        THEN Some([dimensions |-> <<>>, scores |-> <<>>, reasoning |-> ""])
        ELSE Some([dimensions |->
                      [m \in DOMAIN reply.evaluations |-> Normalized(reply.evaluations[m])],
                   scores |->
                      [m \in DOMAIN reply.evaluations |->
                          IF reply.evaluations[m] = <<>> THEN RInt(0)
                          ELSE RDiv(RSum(Normalized(reply.evaluations[m])),
                                    RInt(Len(reply.evaluations[m])))],
                   reasoning |-> reply.reasoning])

\* _claude_judge.  reply is what the messages.create call and the parse of its text
\* come to: [kind |-> "error"] (the call or json.loads raises), [kind |-> "nojson"]
\* (no {...} in the text), or [kind |-> "ok", evaluations |-> method -> 1-10 scores].
\* The value is Nil (None) or Some of the 'dimensions' (score / 10 each) and the
\* 'scores' (their mean) per method.
ClaudeJudge(translations, reply) ==
    LET successful == {i \in 1..Len(translations) : is_successful(translations[i])}
        Normalized(ds) == [k \in 1..Len(ds) |-> R(ds[k], 10)]
    IN  IF Cardinality(successful) < 2 THEN Nil
        ELSE IF reply.kind # "ok" THEN Nil
        ELSE Some([dimensions |->
                      [m \in DOMAIN reply.evaluations |-> Normalized(reply.evaluations[m])],
                   scores |->
                      [m \in DOMAIN reply.evaluations |->
                          IF reply.evaluations[m] = <<>> THEN RInt(0)
                          ELSE RDiv(RSum(Normalized(reply.evaluations[m])),
                                    RInt(Len(reply.evaluations[m])))],
                   reasoning |-> reply.reasoning])

\* max(combined_scores, key=combined_scores.get): the first key, in insertion order,
\* that no later key beats and that beats every earlier key.
FirstIndexOf(translations, m) ==
    CHOOSE i \in 1..Len(translations) :
        /\ translations[i].method = m
        /\ \A j \in 1..(i - 1) : translations[j].method # m

BestMethod(translations, scores) ==
    CHOOSE m \in DOMAIN scores :
        \A o \in DOMAIN scores \ {m} :
            IF FirstIndexOf(translations, o) < FirstIndexOf(translations, m)
            THEN RLt(scores[o], scores[m])
            ELSE RLe(scores[o], scores[m])

\* Phase 4 on: the judge result blended in, the best method picked.
\* judge_result is Nil when the judge was not called or gave nothing.
BlendAndRank(translations, dimension_scores, combined, callJudge, judge_result) ==
    LET blended ==
            IF judge_result = Nil THEN combined
            ELSE [m \in DOMAIN combined |->
                    IF m \in DOMAIN judge_result[1].scores
                    THEN RAdd(RMul(R(6, 10), judge_result[1].scores[m]),
                              RMul(R(4, 10), combined[m]))
                    ELSE combined[m]]
        \* dimension_scores[method].update({f"judge_{k}": v ...})
        judge_dimensions ==
            [m \in DOMAIN dimension_scores |->
                IF judge_result # Nil /\ m \in DOMAIN judge_result[1].dimensions
                THEN judge_result[1].dimensions[m]
                ELSE <<>>]
    IN  [scores |-> blended,
         dimension_scores |-> dimension_scores,
         judge_dimensions |-> judge_dimensions,
         best_method |-> BestMethod(translations, blended),
         reasoning |-> IF judge_result = Nil THEN "" ELSE judge_result[1].reasoning,
         judge_used |-> judge_result # Nil,
         judge_called |-> callJudge]

\* Phase 3 on: the weighted totals, then the judge if there is a client and the two
\* best totals are close.
CombineAndJudge(translations, dimension_scores, combined, _claude_client, reply) ==
    BlendAndRank(translations, dimension_scores, combined,
                 _claude_client /\ ShouldUseJudge(combined),
                 IF _claude_client /\ ShouldUseJudge(combined)
                 THEN ClaudeJudge(translations, reply) ELSE Nil)

\* evaluate_translations(source_text, translations) of an evaluator whose
\* _claude_client is set iff the third argument holds, the judge answering reply if it
\* is called.
EvaluateTranslations(source_text, translations, _claude_client, reply) ==
    IF translations = <<>>
    THEN [scores |-> <<>>, dimension_scores |-> <<>>, judge_dimensions |-> <<>>,
          best_method |-> "", reasoning |-> "",
          judge_used |-> FALSE, judge_called |-> FALSE]
    ELSE IF Len(translations) = 1
    THEN [scores |-> [m \in {translations[1].method} |-> translations[1].confidence],
          dimension_scores |->
              [m \in {translations[1].method} |->
                  [self_confidence |-> translations[1].confidence]],
          judge_dimensions |-> [m \in {translations[1].method} |-> <<>>],
          best_method |-> translations[1].method, reasoning |-> "",
          judge_used |-> FALSE, judge_called |-> FALSE]
    ELSE CHOOSE quality_score \in
            {CombineAndJudge(translations, dimension_scores,
                             [m \in DOMAIN dimension_scores |->
                                 WeightedTotal(dimension_scores[m])],
                             _claude_client, reply) :
                dimension_scores \in {DimensionScores(source_text, translations)}} : TRUE

(***************************************************************************)
(* Sample data                                                             *)
(***************************************************************************)
\* "U+06xx" stands for one character of the Arabic block.
SrcHello == <<"U+0645", "U+0631", "U+062D", "U+0628", "U+0627">>
EnHello == <<"H", "e", "l", "l", "o">>

Conf(n) == R(n, 100)

\* What translate_with_timing may be handed: "", " ", "\t\n" and a real text.
InputTexts == {<<>>, <<" ">>, <<"\t", "\n">>, SrcHello}

\* Errors an adapter call raises.
E400 == Exc("builtin", "HTTPStatusError", Nil, Some(400))
E500 == Exc("builtin", "HTTPStatusError", Nil, Some(500))
ETimeout == Exc("builtin", "TimeoutError", Nil, Nil)
EAuth == Exc("anthropic", "AuthenticationError", Some(401), Some(401))
EOverloaded == Exc("anthropic", "InternalServerError", Some(529), Some(529))
RetryErrors == {E400, E500, ETimeout, EAuth, EOverloaded}

\* What an adapter's translate returns: a translation, an empty translation, or the
\* error result of google_translator.py:135-141 / deepl_translator.py:155-162.
AdapterReturns ==
    {TranslationResult("adapter", EnHello, Conf(90), NONE),
     TranslationResult("adapter", <<>>, Conf(82), NONE),
     TranslationResult("adapter", <<>>, Conf(0), "No translations returned")}

(***************************************************************************)
(* utils.py: retry_with_backoff                                            *)
(***************************************************************************)
MaxRetriesBound == 3
DefaultMaxDelay == 60
BaseDelays == {2, 3, 4}
MaxDelays == {DefaultMaxDelay, 5}

RetryConfigs ==
    [max_retries : 0..MaxRetriesBound, base_delay : BaseDelays, max_delay : MaxDelays]

\* delay = min(base_delay * (2 ** attempt), max_delay)
BackoffDelayUncapped(cfg, k) == cfg.base_delay * Pow2(k)

BackoffDelay(cfg, k) == Min(cfg.base_delay * Pow2(k), cfg.max_delay)

\* if attempt < max_retries: ... time.sleep(delay)
SleepsAfter(cfg, k) == k < cfg.max_retries

\* for attempt in range(max_retries + 1)
LastAttemptOneEarly(cfg) == cfg.max_retries - 1

LastAttempt(cfg) == cfg.max_retries

\* if not _is_retryable_error(e): ... raise
RaisesImmediatelyNever(exc) == FALSE

RaisesImmediately(exc) == ~IsRetryableError(exc)

\* str(e)
StrOf(exc) == exc.cls

Returned(res) == [kind |-> "return", value |-> res]
Raised(exc) == [kind |-> "raise", value |-> exc]

InitRetry ==
    /\ rPc = "idle"
    /\ rCfg = [max_retries |-> 0, base_delay |-> 2, max_delay |-> DefaultMaxDelay]
    /\ rText = <<>>
    /\ attempt = 0
    /\ invocations = 0
    /\ sleeps = <<>>
    /\ history = <<>>
    /\ last_exception = Nil
    /\ raised = Nil
    /\ rResult = Nil

\* translate_with_timing(text): start = time.time(); try: self.translate(text, ...)
\* enters the wrapper: last_exception = None, first pass of the for loop.
TranslateWithTiming(text, cfg) ==
    /\ rPc = "idle"
    /\ rPc' = "try"
    /\ rText' = text
    /\ rCfg' = cfg
    /\ attempt' = 0
    /\ last_exception' = Nil
    /\ UNCHANGED <<invocations, sleeps, history, raised, rResult, exceptRetry>>

\* return func(*args, **kwargs): the call returns, the wrapper returns its value,
\* translate_with_timing sets latency_seconds and returns the result.
AttemptReturns(res) ==
    /\ rPc = "try"
    /\ invocations' = invocations + 1
    /\ history' = Append(history, Returned(res))
    /\ rResult' = Some(res)
    /\ rPc' = "done"
    /\ UNCHANGED <<rCfg, rText, attempt, sleeps, last_exception, raised,
                   exceptRetry>>

\* The wrapper lets exc out and translate_with_timing has no except clause.
PropagateUncaught(exc) ==
    /\ raised' = Some(exc)
    /\ rResult' = Nil
    /\ rPc' = "done"
    /\ UNCHANGED attempt

\* The wrapper lets exc out (raise / raise last_exception); translate_with_timing's
\* except clause turns it into a failed TranslationResult.
Propagate(exc) ==
    /\ raised' = Some(exc)
    /\ rResult' = Some(TranslationResult("adapter", <<>>, Conf(0), StrOf(exc)))
    /\ rPc' = "done"
    /\ UNCHANGED attempt

\* The for loop takes its next value, or is exhausted and last_exception is raised.
LoopAdvance(exc) ==
    IF attempt < LastAttempt(rCfg)
    THEN /\ attempt' = attempt + 1
         /\ rPc' = "try"
         /\ UNCHANGED <<raised, rResult>>
    ELSE Propagate(exc)

\* except exceptions as e: the call raises exc.
AttemptRaises(exc) ==
    /\ rPc = "try"
    /\ invocations' = invocations + 1
    /\ history' = Append(history, Raised(exc))
    /\ last_exception' = Some(exc)
    /\ IF RaisesImmediately(exc)
       THEN Propagate(exc) /\ UNCHANGED sleeps
       ELSE IF SleepsAfter(rCfg, attempt)
            THEN /\ sleeps' = Append(sleeps, BackoffDelay(rCfg, attempt))
                 /\ rPc' = "sleep"
                 /\ UNCHANGED <<attempt, raised, rResult>>
            ELSE LoopAdvance(exc) /\ UNCHANGED sleeps
    /\ UNCHANGED <<rCfg, rText, exceptRetry>>

\* time.sleep(delay) returns.
Wake ==
    /\ rPc = "sleep"
    /\ LoopAdvance(last_exception[1])
    /\ UNCHANGED <<rCfg, rText, invocations, sleeps, history, last_exception,
                   exceptRetry>>

NextRetry ==
    \/ \E text \in InputTexts, cfg \in RetryConfigs : TranslateWithTiming(text, cfg)
    \/ \E res \in AdapterReturns : AttemptReturns(res)
    \/ \E exc \in RetryErrors : AttemptRaises(exc)
    \/ Wake

(***************************************************************************)
(* _is_retryable_error applied to one exception                            *)
(***************************************************************************)
ExcSdks == {"builtin", "anthropic", "openai"}
ExcClasses ==
    ClientErrorClasses \cup
    {"Exception", "TimeoutError", "ConnectionError", "RateLimitError",
     "InternalServerError", "HTTPStatusError"}
StatusCodes == {0, 200, 399, 400, 401, 403, 404, 422, 429, 499, 500, 502, 503}
OptStatus == {Nil} \cup {Some(c) : c \in StatusCodes}
Exceptions ==
    {Exc(sdk, cls, st, rs) : sdk \in ExcSdks, cls \in ExcClasses,
                             st \in OptStatus, rs \in OptStatus}

InitClassify ==
    /\ cExc \in Exceptions
    /\ cVerdict = "unset"

Classify ==
    /\ cVerdict = "unset"
    /\ cVerdict' = IF IsRetryableError(cExc) THEN "retryable" ELSE "non-retryable"
    /\ UNCHANGED <<cExc, exceptClassify>>

NextClassify == Classify

IdleClassify ==
    /\ cExc = ETimeout
    /\ cVerdict = "unset"

(***************************************************************************)
(* evaluate_translations applied to one list of results                    *)
(***************************************************************************)
MaxCandidates == 3

\* TranslationMethod, in the order of TranslationConfig.methods
AllMethods == <<"claude", "google", "deepl", "openai">>
MethodNames == {AllMethods[i] : i \in 1..Len(AllMethods)}

\* "مرحبا، بحر ابحر"
SrcNews == <<"U+0645", "U+0631", "U+062D", "U+0628", "U+0627", "U+060C", " ", "U+0628", "U+062D", "U+0631", " ", "U+0627", "U+0628", "U+062D", "U+0631">>
\* "Hello world"
EnHelloWorld == <<"H", "e", "l", "l", "o", " ", "w", "o", "r", "l", "d">>
\* "Hello مرحبا": a translation that left a source word untranslated
EnLeftover == <<"H", "e", "l", "l", "o", " ", "U+0645", "U+0631", "U+062D", "U+0628", "U+0627">>

\* What one backend hands back: [translated_text, confidence, error].
Payload(text, confidence, error) ==
    [translated_text |-> text, confidence |-> confidence, error |-> error]
PGood == Payload(EnHelloWorld, Conf(90), NONE)
PLeftover == Payload(EnLeftover, Conf(82), NONE)
PFailed == Payload(<<>>, Conf(0), "Failed")
PEmpty == Payload(<<>>, Conf(82), NONE)
PFailedWithText == Payload(EnHelloWorld, Conf(90), "Failed")
\* "a.a.a.a.a.a.a.a.a.a.a.a.": twelve sentence ends against the one of the source
PChoppy == Payload([k \in 1..24 |-> IF k % 2 = 1 THEN "a" ELSE "."], Conf(90), NONE)
Payloads == {PGood, PLeftover, PFailed, PEmpty, PFailedWithText, PChoppy}

ResultOf(method, p) == TranslationResult(method, p.translated_text, p.confidence, p.error)

\* Answers of the judge: the call fails, the text holds no JSON object, or it scores
\* every method (one favouring the methods listed late, one the methods listed early).
JudgeFavours(best) ==
    [kind |-> "ok",
     evaluations |-> [m \in MethodNames |->
                         IF m \in best THEN <<10, 9, 10, 9, 10>> ELSE <<7, 7, 8, 7, 7>>],
     reasoning |-> "because"]
JudgeError == [kind |-> "error"]
JudgeNoJson == [kind |-> "nojson"]
\* The judge scores the translations of the prompt, which shows it the successful
\* ones only: an answer for a prompt that showed it those of `asked`.
JudgeScoring(asked) ==
    [kind |-> "ok",
     evaluations |-> [m \in asked |-> <<7, 7, 8, 7, 7>>],
     reasoning |-> "because"]
JudgeReplies ==
    {JudgeError, JudgeNoJson, JudgeFavours({"deepl", "openai"}), JudgeFavours({"claude"}),
     JudgeScoring({"claude", "google"})}

InitEval ==
    /\ ePc = "collect"
    /\ eSource = SrcNews
    /\ eTranslations = <<>>
    /\ eJudgeClient \in BOOLEAN
    /\ eReply = JudgeError
    /\ eResult = Nil

IdleEval ==
    /\ ePc = "collect"
    /\ eSource = SrcNews
    /\ eTranslations = <<>>
    /\ eJudgeClient = FALSE
    /\ eReply = JudgeError
    /\ eResult = Nil

\* The caller puts one more result, of a method not yet in the list, on the list.
Submit(method, p) ==
    /\ ePc = "collect"
    /\ Len(eTranslations) < MaxCandidates
    /\ method \notin MethodsOf(eTranslations)
    /\ eTranslations' = Append(eTranslations, ResultOf(method, p))
    /\ UNCHANGED <<ePc, eSource, eJudgeClient, eReply, eResult, exceptEval>>

\* evaluate_translations(source_text, translations).  The judge's reply matters only
\* to an evaluator that has a judge client.
Evaluate(reply) ==
    /\ ePc = "collect"
    /\ eJudgeClient \/ reply = JudgeError
    /\ \E quality_score \in {EvaluateTranslations(eSource, eTranslations, eJudgeClient, reply)} :
          /\ eResult' = Some(quality_score)
          /\ eReply' = IF quality_score.judge_called THEN reply ELSE JudgeError
    /\ ePc' = "done"
    /\ UNCHANGED <<eSource, eTranslations, eJudgeClient, exceptEval>>

NextEval ==
    \/ \E m \in MethodNames, p \in Payloads : Submit(m, p)
    \/ \E reply \in JudgeReplies : Evaluate(reply)

(***************************************************************************)
(* translator/ensemble.py: TranslationEnsemble                             *)
(***************************************************************************)
\* self.translators after _init_translators: the methods with a key, in the order of
\* config.methods; never empty (an empty registry raises RuntimeError).
IsRegistry(reg) ==
    /\ reg # <<>>
    /\ \A i \in 1..Len(reg) : reg[i] \in MethodNames
    /\ \A i, j \in 1..Len(reg) :
          i < j => \E a, b \in 1..Len(AllMethods) :
                      a < b /\ AllMethods[a] = reg[i] /\ AllMethods[b] = reg[j]
Registries ==
    {reg \in UNION {[1..n -> MethodNames] : n \in 1..Len(AllMethods)} : IsRegistry(reg)}

preferred_order_as_registered == AllMethods

preferred_order == <<"claude", "deepl", "openai", "google">>

Registered(reg) == {reg[i] : i \in 1..Len(reg)}

\* What the backends hand back in the ensemble runs.
EnsemblePayloads == {PGood, PLeftover, PFailed}
\* In the ensemble runs the judge, when it is called, answers with scores; its failures
\* are the matter of the runs of evaluate_translations alone.
EnsembleReplies == {JudgeFavours({"deepl", "openai"})}
\* The texts handed to translate: a blank one and a sentence.
EnsembleTexts == {<<" ">>, SrcNews}

\* [r for r in results if r.is_successful]
RECURSIVE Successful(_)
Successful(rs) ==
    IF rs = <<>> THEN <<>>
    ELSE (IF is_successful(Head(rs)) THEN <<Head(rs)>> ELSE <<>>) \o Successful(Tail(rs))

\* next((r for r in successful if r.method == best_method), successful[0])
BestResult(successful, best_method) ==
    IF \E i \in 1..Len(successful) : successful[i].method = best_method
    THEN successful[CHOOSE i \in 1..Len(successful) :
                       /\ successful[i].method = best_method
                       /\ \A j \in 1..(i - 1) : successful[j].method # best_method]
    ELSE successful[1]

\* _run_ensemble returning the first completed result whatever succeeded.
SelectAmongFirstCompleted(text, rs, successful, client, reply) ==
    [best |-> rs[1], all |-> rs, quality |-> Nil, evaluated |-> FALSE]

\* _run_ensemble once the successful results are filtered out: the tuple it returns,
\* and whether it called the evaluator.
SelectAmong(text, rs, successful, client, reply) ==
    IF successful = <<>>
    THEN [best |-> rs[1], all |-> rs, quality |-> Nil, evaluated |-> FALSE]
    ELSE IF Len(successful) = 1
    THEN [best |-> successful[1], all |-> rs, quality |-> Nil, evaluated |-> FALSE]
    ELSE CHOOSE r \in {[best |-> BestResult(successful, quality_score.best_method),
                        all |-> rs, quality |-> Some(quality_score), evaluated |-> TRUE] :
                          quality_score \in
                              {EvaluateTranslations(text, successful, client, reply)}} : TRUE

\* _run_ensemble from "Filter to successful results" on.
SelectBest(text, rs, client, reply) ==
    CHOOSE r \in {SelectAmong(text, rs, successful, client, reply) :
                     successful \in {Successful(rs)}} : TRUE

\* if len(self.translators) == 1
SinglePathNever(reg) == FALSE

SinglePath(reg) == Len(reg) = 1

InitEnsemble ==
    /\ translators \in Registries
    /\ enable_ensemble \in BOOLEAN
    /\ force_multi_method \in BOOLEAN
    \* A registered ClaudeTranslator means the key is set and anthropic imports, and
    \* then _init_evaluator gets a judge client too.
    /\ judgeClient \in (IF "claude" \in Registered(translators) THEN {TRUE} ELSE BOOLEAN)
    /\ tPc = "ready"
    /\ tText = <<>>
    /\ prefPos = 1
    /\ pending = {}
    /\ results = <<>>
    /\ translateCalls = [m \in MethodNames |-> 0]
    /\ evaluatorCalls = 0
    /\ tReply = JudgeError
    /\ tReturn = Nil
    /\ tContext = Nil
    /\ tCall = 0
    /\ timeline = <<>>
    /\ neverReturns = {}
    /\ deadlineElapsed = FALSE

IdleEnsemble ==
    /\ translators = <<"claude">>
    /\ enable_ensemble = TRUE
    /\ force_multi_method = FALSE
    /\ judgeClient = TRUE
    /\ tPc = "ready"
    /\ tText = <<>>
    /\ prefPos = 1
    /\ pending = {}
    /\ results = <<>>
    /\ translateCalls = [m \in MethodNames |-> 0]
    /\ evaluatorCalls = 0
    /\ tReply = JudgeError
    /\ tReturn = Nil
    /\ tContext = Nil
    /\ tCall = 0
    /\ timeline = <<>>
    /\ neverReturns = {}
    /\ deadlineElapsed = FALSE

\* One entry of the history: backend `method` was called with (text, context) during
\* the n-th translate, or that call returned.
Event(ev, n, method, text, context) ==
    [ev |-> ev, n |-> n, method |-> method, text |-> text, context |-> context,
     result |-> Nil]

\* The call of `method` returned result.
ReturnEvent(n, method, text, context, result) ==
    [ev |-> "return", n |-> n, method |-> method, text |-> text, context |-> context,
     result |-> Some(result)]

\* The submits of _run_ensemble, in the order of self.translators.
RECURSIVE SubmitEvents(_, _, _, _)
SubmitEvents(names, n, text, context) ==
    IF names = <<>> THEN <<>>
    ELSE <<Event("call", n, Head(names), text, context)>>
            \o SubmitEvents(Tail(names), n, text, context)

FanOutFirstOnly ==
    /\ tPc' = "fanout"
    /\ pending' = {translators[1]}
    /\ translateCalls' = [translateCalls EXCEPT ![translators[1]] = @ + 1]

\* _run_ensemble up to the submits: every translator's translate_with_timing starts on
\* its own worker thread, and translate_with_timing calls self.translate.
FanOut ==
    /\ tPc' = "fanout"
    /\ pending' = Registered(translators)
    /\ translateCalls' =
          [m \in MethodNames |->
              translateCalls[m] + (IF m \in Registered(translators) THEN 1 ELSE 0)]

\* translate(text, ..., context): the branch taken on entry.
TranslateCall(text, context) ==
    /\ tPc = "ready"
    /\ tText' = text
    /\ tContext' = context
    /\ tCall' = tCall + 1
    /\ IF SinglePath(translators)
       THEN /\ tPc' = "single"
            /\ UNCHANGED <<pending, translateCalls, timeline>>
       ELSE IF ~enable_ensemble /\ ~force_multi_method
            THEN /\ tPc' = "preferred"
                 /\ UNCHANGED <<pending, translateCalls, timeline>>
            ELSE /\ FanOut
                 /\ timeline' = timeline \o SubmitEvents(translators, tCall + 1, text, context)
    /\ UNCHANGED <<translators, enable_ensemble, force_multi_method, judgeClient, prefPos,
                   results, evaluatorCalls, tReply, tReturn, neverReturns,
                   deadlineElapsed>>

Translate(text, context) ==
    /\ TranslateCall(text, context)
    /\ UNCHANGED exceptEnsemble

\* Single method: translate_with_timing of the only translator; return result, [result], None
SingleCall(p) ==
    /\ tPc = "single"
    /\ translators[1] \notin neverReturns
    /\ LET method_name == translators[1]
           result == ResultOf(method_name, p)
       IN  /\ translateCalls' = [translateCalls EXCEPT ![method_name] = @ + 1]
           /\ tReturn' = Some([best |-> result, all |-> <<result>>, quality |-> Nil])
           /\ timeline' = timeline \o <<Event("call", tCall, method_name, tText, tContext),
                                        ReturnEvent(tCall, method_name, tText, tContext, result)>>
    /\ tPc' = "done"
    /\ UNCHANGED <<translators, enable_ensemble, force_multi_method, judgeClient, tText,
                   prefPos, pending, results, evaluatorCalls, tReply, tContext, tCall,
                   neverReturns, deadlineElapsed, exceptEnsemble>>

\* Ensemble disabled: one pass of `for name in preferred_order`; after the last pass
\* translate goes on to _run_ensemble.
PreferredStep(p) ==
    /\ tPc = "preferred"
    /\ LET name == preferred_order[prefPos]
           result == ResultOf(name, p)
           called == name \in Registered(translators)
           last == prefPos = Len(preferred_order)
           tried == IF called
                    THEN <<Event("call", tCall, name, tText, tContext),
                           ReturnEvent(tCall, name, tText, tContext, result)>>
                    ELSE <<>>
       IN  /\ ~(called /\ name \in neverReturns)
           /\ IF called /\ is_successful(result)
              THEN /\ translateCalls' = [translateCalls EXCEPT ![name] = @ + 1]
                   /\ tReturn' = Some([best |-> result, all |-> <<result>>, quality |-> Nil])
                   /\ tPc' = "done"
                   /\ timeline' = timeline \o tried
                   /\ UNCHANGED <<prefPos, pending>>
              ELSE /\ tReturn' = tReturn
                   /\ IF last
                      THEN /\ tPc' = "fanout"
                           /\ pending' = Registered(translators)
                           /\ translateCalls' =
                                 [m \in MethodNames |->
                                     translateCalls[m]
                                     + (IF m = name /\ called THEN 1 ELSE 0)
                                     + (IF m \in Registered(translators) THEN 1 ELSE 0)]
                           /\ timeline' = timeline \o tried
                                 \o SubmitEvents(translators, tCall, tText, tContext)
                           /\ UNCHANGED prefPos
                      ELSE /\ prefPos' = prefPos + 1
                           /\ translateCalls' =
                                 [translateCalls EXCEPT ![name] = @ + (IF called THEN 1 ELSE 0)]
                           /\ timeline' = timeline \o tried
                           /\ UNCHANGED <<tPc, pending>>
    /\ UNCHANGED <<translators, enable_ensemble, force_multi_method, judgeClient, tText,
                   results, evaluatorCalls, tReply, tContext, tCall, neverReturns,
                   deadlineElapsed, exceptEnsemble>>

\* as_completed yields the future of method m: results.append(future.result(timeout=60)).
\* as_completed yields a future only once its call has returned.
Complete(m, p) ==
    /\ tPc = "fanout"
    /\ m \in pending
    /\ m \notin neverReturns
    /\ pending' = pending \ {m}
    /\ results' = Append(results, ResultOf(m, p))
    /\ timeline' = Append(timeline, ReturnEvent(tCall, m, tText, tContext, ResultOf(m, p)))
    /\ UNCHANGED <<translators, enable_ensemble, force_multi_method, judgeClient, tPc,
                   tText, prefPos, translateCalls, evaluatorCalls, tReply, tReturn,
                   tContext, tCall, neverReturns, deadlineElapsed, exceptEnsemble>>

FirstFutureIn(pend) == pend # Registered(translators)

\* The as_completed loop has yielded every future and the executor has shut down.
AllFuturesIn(pend) == pend = {}

\* All futures are in: filter, evaluate, return.  tReply keeps the judge's reply if
\* the judge was called.
Select(reply) ==
    /\ tPc = "fanout"
    /\ AllFuturesIn(pending)
    /\ \E r \in {SelectBest(tText, results, judgeClient, reply)} :
          /\ tReturn' = Some([best |-> r.best, all |-> r.all, quality |-> r.quality])
          /\ evaluatorCalls' = evaluatorCalls + (IF r.evaluated THEN 1 ELSE 0)
          /\ tReply' = IF r.evaluated /\ r.quality[1].judge_called THEN reply ELSE JudgeError
    /\ tPc' = "done"
    /\ UNCHANGED <<translators, enable_ensemble, force_multi_method, judgeClient, tText,
                   prefPos, pending, results, translateCalls, tContext, tCall, timeline,
                   neverReturns, deadlineElapsed, exceptEnsemble>>

NextEnsemble ==
    \/ \E text \in EnsembleTexts : Translate(text, Nil)
    \/ \E p \in EnsemblePayloads : SingleCall(p)
    \/ \E p \in EnsemblePayloads : PreferredStep(p)
    \/ \E m \in MethodNames, p \in EnsemblePayloads : Complete(m, p)
    \/ \E reply \in EnsembleReplies : Select(reply)

\* The fan-out when a backend may hang: translate on a registry of two methods, any of
\* which may never return, while the clock runs past the time allowed for the chunk.
DeadlineRegistries == {reg \in Registries : Len(reg) = 2}

DeadlinePayloads == {PGood, PFailed}

InitDeadline ==
    /\ translators \in DeadlineRegistries
    /\ enable_ensemble \in BOOLEAN
    /\ force_multi_method \in BOOLEAN
    /\ judgeClient \in (IF "claude" \in Registered(translators) THEN {TRUE} ELSE BOOLEAN)
    /\ tPc = "ready"
    /\ tText = <<>>
    /\ prefPos = 1
    /\ pending = {}
    /\ results = <<>>
    /\ translateCalls = [m \in MethodNames |-> 0]
    /\ evaluatorCalls = 0
    /\ tReply = JudgeError
    /\ tReturn = Nil
    /\ tContext = Nil
    /\ tCall = 0
    /\ timeline = <<>>
    /\ neverReturns \in SUBSET Registered(translators)
    /\ deadlineElapsed = FALSE

\* Time passes.  translate and _run_ensemble read no clock: as_completed is called
\* without a timeout and the only timeout, future.result(timeout=60), is applied to a
\* future that has already completed.
DeadlineElapses ==
    /\ tPc \in {"preferred", "fanout"}
    /\ ~deadlineElapsed
    /\ deadlineElapsed' = TRUE
    /\ UNCHANGED <<translators, enable_ensemble, force_multi_method, judgeClient, tPc,
                   tText, prefPos, pending, results, translateCalls, evaluatorCalls,
                   tReply, tReturn, tContext, tCall, timeline, neverReturns,
                   exceptEnsemble>>

NextDeadline ==
    \/ Translate(SrcNews, Nil)
    \/ \E p \in DeadlinePayloads : PreferredStep(p)
    \/ \E m \in MethodNames, p \in DeadlinePayloads : Complete(m, p)
    \/ DeadlineElapses
    \/ \E reply \in EnsembleReplies : Select(reply)

(***************************************************************************)
(* utils.chunk_text                                                        *)
(***************************************************************************)
MaxTextLen == 6
MaxWindow == 3

\* A letter, a space, a sentence end that is not whitespace and one that is.
ChunkAlphabet == {"a", " ", ".", "\n"}
ChunkTexts == UNION {[1..n -> ChunkAlphabet] : n \in 0..MaxTextLen}

\* text[a:b] for offsets 0 <= a <= b
Slice(text, a, b) == SubSeq(text, a + 1, Min(b, Len(text)))

\* The character class of sentence_end_pattern = [.!?،؟\n]\s*
sentence_end_pattern == {".", "!", "?", "U+060C", "U+061F", "\n"}

\* matches[-1].end() over finditer(segment), 0 when there is no match.  The last match
\* covers the last character of the class and the whitespace that follows it.
LastMatchEnd(segment) ==
    LET hits == {q \in 1..Len(segment) : segment[q] \in sentence_end_pattern}
    IN  IF hits = {} THEN 0
        ELSE LET q == CHOOSE h \in hits : \A g \in hits : g <= h
             IN  CHOOSE e \in q..Len(segment) :
                    /\ \A j \in (q + 1)..e : segment[j] \in Whitespace
                    /\ e < Len(segment) => segment[e + 1] \notin Whitespace

\* segment.rfind(' ')
RFindSpace(segment) ==
    LET hits == {q \in 1..Len(segment) : segment[q] = " "}
    IN  IF hits = {} THEN -1 ELSE (CHOOSE h \in hits : \A g \in hits : g <= h) - 1

SplitInAtAnySpace(segment, from, end) ==
    LET last_match_end == LastMatchEnd(segment)
        last_space == RFindSpace(segment)
    IN  IF last_match_end > 0 THEN from + last_match_end
        ELSE IF last_space >= 0 THEN from + last_space
        ELSE end

\* split_pos for a window [from, from + max_chars) that ends inside the text, when the
\* search of the split runs over segment
SplitIn(segment, from, end) ==
    LET last_match_end == LastMatchEnd(segment)
        last_space == RFindSpace(segment)
    IN  IF last_match_end > 0 THEN from + last_match_end
        ELSE IF last_space > 0 THEN from + last_space
        ELSE end

SplitPosAnywhereAhead(text, from, max_chars) ==
    SplitIn(Slice(text, from, Len(text)), from, from + max_chars)

SplitPos(text, from, max_chars) ==
    SplitIn(Slice(text, from, from + max_chars), from, from + max_chars)

NextStartSkippingOne(split_pos) == split_pos + 1

\* start = split_pos
NextStart(split_pos) == split_pos

FitsOneChunkWhenShorter(text, max_chars) == Len(text) < max_chars

\* if len(text) <= max_chars: return [text]
FitsOneChunk(text, max_chars) == Len(text) <= max_chars

KeepEveryChunk(cs) == cs

\* [c for c in chunks if c]
NonEmptyChunks(cs) == SelectSeq(cs, LAMBDA c : c # <<>>)

\* The while loop from cursor `from` with the chunks `acc` so far.
RECURSIVE ChunkLoop(_, _, _, _)
ChunkLoop(text, max_chars, from, acc) ==
    IF from >= Len(text) THEN acc
    ELSE IF from + max_chars >= Len(text)
         THEN Append(acc, Strip(Slice(text, from, Len(text))))
         ELSE \* the new cursor is bound once
              CHOOSE r \in {ChunkLoop(text, max_chars, NextStart(split_pos),
                                      Append(acc, Strip(Slice(text, from, split_pos)))) :
                               split_pos \in {SplitPos(text, from, max_chars)}} : TRUE

chunk_text(text, max_chars) ==
    IF FitsOneChunk(text, max_chars) THEN <<text>>
    ELSE NonEmptyChunks(ChunkLoop(text, max_chars, 0, <<>>))

InitChunk ==
    /\ kPc = "ready"
    /\ kText \in ChunkTexts
    /\ kMaxChars \in 1..MaxWindow
    /\ start = 0
    /\ chunks = <<>>
    /\ kReturn = Nil

IdleChunk ==
    /\ kPc = "ready"
    /\ kText = <<>>
    /\ kMaxChars = 1
    /\ start = 0
    /\ chunks = <<>>
    /\ kReturn = Nil

\* Entry: the early return, or chunks = [] and start = 0
ChunkCall ==
    /\ kPc = "ready"
    /\ IF FitsOneChunk(kText, kMaxChars)
       THEN /\ kReturn' = Some(<<kText>>)
            /\ kPc' = "done"
       ELSE /\ kReturn' = Nil
            /\ kPc' = "loop"
    /\ start' = 0
    /\ chunks' = <<>>
    /\ UNCHANGED <<kText, kMaxChars, exceptChunk>>

\* One pass of the while loop that splits: the window ends inside the text.
SplitWindow ==
    /\ kPc = "loop"
    /\ start < Len(kText)
    /\ start + kMaxChars < Len(kText)
    /\ \E split_pos \in {SplitPos(kText, start, kMaxChars)} :
          /\ chunks' = Append(chunks, Strip(Slice(kText, start, split_pos)))
          /\ start' = NextStart(split_pos)
    /\ UNCHANGED <<kPc, kText, kMaxChars, kReturn, exceptChunk>>

\* The loop ends, by its condition or by the break on the last window, and the
\* function returns the chunks that are not empty.
LastWindow ==
    /\ kPc = "loop"
    /\ start >= Len(kText) \/ start + kMaxChars >= Len(kText)
    /\ \E cs \in {IF start < Len(kText)
                  THEN Append(chunks, Strip(Slice(kText, start, Len(kText))))
                  ELSE chunks} :
          /\ chunks' = cs
          /\ kReturn' = Some(NonEmptyChunks(cs))
    /\ kPc' = "done"
    /\ UNCHANGED <<kText, kMaxChars, start, exceptChunk>>

NextChunk ==
    \/ ChunkCall
    \/ SplitWindow
    \/ LastWindow

(***************************************************************************)
(* pipeline.py: ArabicPDFTranslator.translate_text                         *)
(***************************************************************************)
\* config.max_chunk_chars, scaled down to the texts below
PipelineMaxChunkChars == 7

\* "بحر " (one chunk, returned untrimmed), "مرحبا، بحر" (two chunks),
\* "مرحبا، بحر ابحر" (three chunks) and eight spaces (no chunk at all).
SrcOneChunk == <<"U+0628", "U+062D", "U+0631", " ">>
SrcTwoChunks == SubSeq(SrcNews, 1, 10)
SrcBlank == [k \in 1..(PipelineMaxChunkChars + 1) |-> " "]
PipelineTexts == {SrcOneChunk, SrcTwoChunks, SrcNews, SrcBlank}

PipelineRegistries == {<<"claude">>, <<"claude", "google">>}
PipelinePayloads == {PGood, PLeftover, PFailed}

RECURSIVE JoinWithSpace(_)
JoinFirstOnly(texts) == IF texts = <<>> THEN <<>> ELSE texts[1]

\* " ".join(texts)
JoinWithSpace(texts) ==
    IF texts = <<>> THEN <<>>
    ELSE IF Len(texts) = 1 THEN texts[1]
    ELSE texts[1] \o <<" ">> \o JoinWithSpace(Tail(texts))

\* sum(r.confidence for r in rs if r.is_successful) / max(1, len([... successful]))
MeanConfidence(rs) ==
    CHOOSE c \in {RDiv(RSum([k \in 1..Len(ok) |-> ok[k].confidence]),
                       RInt(Max(1, Len(ok)))) : ok \in {Successful(rs)}} : TRUE

ChunkContextOfSameChunk(cs, i) == Some(cs[i + 1])

\* context = chunks[i - 1] if i > 0 else None, for the index i counted from 0
ChunkContext(cs, i) == IF i > 0 THEN Some(cs[i]) ELSE Nil

InitPipeline ==
    /\ pPc = "ready"
    /\ arabic_text \in PipelineTexts
    /\ pChunks = <<>>
    /\ pI = 0
    /\ all_best_translations = <<>>
    /\ all_results_combined = <<>>
    /\ last_quality = Nil
    /\ pReturn = Nil
    /\ chunkReturns = <<>>

IdlePipeline ==
    /\ pPc = "ready"
    /\ arabic_text = <<>>
    /\ pChunks = <<>>
    /\ pI = 0
    /\ all_best_translations = <<>>
    /\ all_results_combined = <<>>
    /\ last_quality = Nil
    /\ pReturn = Nil
    /\ chunkReturns = <<>>

\* The ensemble a translator object holds before translate_text is called.
InitPipelineEnsemble ==
    /\ translators \in PipelineRegistries
    /\ enable_ensemble \in BOOLEAN
    /\ force_multi_method = FALSE
    /\ judgeClient = TRUE
    /\ tPc = "ready"
    /\ tText = <<>>
    /\ prefPos = 1
    /\ pending = {}
    /\ results = <<>>
    /\ translateCalls = [m \in MethodNames |-> 0]
    /\ evaluatorCalls = 0
    /\ tReply = JudgeError
    /\ tReturn = Nil
    /\ tContext = Nil
    /\ tCall = 0
    /\ timeline = <<>>
    /\ neverReturns = {}
    /\ deadlineElapsed = FALSE

\* translate_text up to the first call of ensemble.translate: chunk the text; a single
\* chunk goes to ensemble.translate as the whole arabic_text, without context.
TranslateText ==
    /\ pPc = "ready"
    /\ \E cs \in {chunk_text(arabic_text, PipelineMaxChunkChars)} :
          /\ pChunks' = cs
          /\ IF Len(cs) = 1
             THEN /\ TranslateCall(arabic_text, Nil)
                  /\ pPc' = "whole"
             ELSE /\ pPc' = "loop"
                  /\ UNCHANGED ensembleVars
    /\ pI' = 0
    /\ all_best_translations' = <<>>
    /\ all_results_combined' = <<>>
    /\ last_quality' = Nil
    /\ UNCHANGED <<arabic_text, pReturn, chunkReturns, exceptPipeline>>

\* return self.ensemble.translate(arabic_text, ...)
ReturnWhole ==
    /\ pPc = "whole"
    /\ tPc = "done"
    /\ pReturn' = tReturn
    /\ pPc' = "done"
    /\ UNCHANGED <<arabic_text, pChunks, pI, all_best_translations, all_results_combined,
                   last_quality, chunkReturns, ensembleVars, exceptPipeline>>

\* The loop body up to the call: ensemble.translate(chunk, ..., context=context)
DispatchChunk ==
    /\ pPc = "loop"
    /\ pI < Len(pChunks)
    /\ TranslateCall(pChunks[pI + 1], ChunkContext(pChunks, pI))
    /\ pPc' = "translating"
    /\ UNCHANGED <<arabic_text, pChunks, pI, all_best_translations, all_results_combined,
                   last_quality, pReturn, chunkReturns, exceptPipeline>>

\* ensemble.translate has returned (best, results, quality): the rest of the loop
\* body.  The next call of translate starts from fresh locals.
RecordChunk ==
    /\ pPc = "translating"
    /\ tPc = "done"
    /\ all_best_translations' = Append(all_best_translations, tReturn[1].best.translated_text)
    /\ all_results_combined' = all_results_combined \o tReturn[1].all
    /\ last_quality' = tReturn[1].quality
    /\ chunkReturns' = Append(chunkReturns, tReturn[1])
    /\ pI' = pI + 1
    /\ pPc' = "loop"
    /\ timeline' = Append(timeline, Event("record", tCall, NONE, tText, tContext))
    /\ tPc' = "ready"
    /\ prefPos' = 1
    /\ pending' = {}
    /\ results' = <<>>
    /\ tReturn' = Nil
    /\ UNCHANGED <<arabic_text, pChunks, pReturn, translators, enable_ensemble,
                   force_multi_method, judgeClient, tText, translateCalls, evaluatorCalls,
                   tReply, tContext, tCall, neverReturns, deadlineElapsed, exceptPipeline>>

\* After the loop: join the winners and build the "ensemble_chunked" result.
Combine ==
    /\ pPc = "loop"
    /\ pI >= Len(pChunks)
    /\ pReturn' = Some([best |-> TranslationResult("ensemble_chunked",
                                                   JoinWithSpace(all_best_translations),
                                                   MeanConfidence(all_results_combined),
                                                   NONE),
                        all |-> all_results_combined,
                        quality |-> last_quality])
    /\ pPc' = "done"
    /\ UNCHANGED <<arabic_text, pChunks, pI, all_best_translations, all_results_combined,
                   last_quality, chunkReturns, ensembleVars, exceptPipeline>>

NextPipeline ==
    \/ TranslateText
    \/ ReturnWhole
    \/ DispatchChunk
    \/ \E p \in PipelinePayloads : SingleCall(p)
    \/ \E p \in PipelinePayloads : PreferredStep(p)
    \/ \E m \in MethodNames, p \in PipelinePayloads : Complete(m, p)
    \/ \E reply \in EnsembleReplies : Select(reply)
    \/ RecordChunk
    \/ Combine

(***************************************************************************)
(* translator/deepl_translator.py: DeepLTranslator behind                  *)
(* BaseTranslator.translate_with_timing                                    *)
(***************************************************************************)
DeepLBackends == {"deepl_official", "http_direct"}
SourceLangs == {"ar", "en", "fr", "de", "zh"}
TargetLangs == {"en", "en-gb", "ja"}

DEEPL_LANG_MAP ==
    [l \in {"ar", "en", "en-gb", "en-us", "fr", "de", "es", "it", "pt"} |->
        CASE l = "ar" -> "AR"
          [] l = "en" -> "EN-US"
          [] l = "en-gb" -> "EN-GB"
          [] l = "en-us" -> "EN-US"
          [] l = "fr" -> "FR"
          [] l = "de" -> "DE"
          [] l = "es" -> "ES"
          [] l = "it" -> "IT"
          [] l = "pt" -> "PT-BR"]

\* str.upper on the language codes that are not keys of the map
Upper(code) == IF code = "zh" THEN "ZH" ELSE IF code = "ja" THEN "JA" ELSE code

\* DEEPL_LANG_MAP.get(source_lang, source_lang.upper())
DeepLSource(source_lang) ==
    IF source_lang \in DOMAIN DEEPL_LANG_MAP THEN DEEPL_LANG_MAP[source_lang]
    ELSE Upper(source_lang)

\* DEEPL_LANG_MAP.get(target_lang, "EN-US")
DeepLTarget(target_lang) ==
    IF target_lang \in DOMAIN DEEPL_LANG_MAP THEN DEEPL_LANG_MAP[target_lang]
    ELSE "EN-US"

\* @retry_with_backoff(max_retries=3, base_delay=1.5, exceptions=(Exception,))
DeepLRetry == [max_retries |-> 3, base_delay |-> 3, max_delay |-> DefaultMaxDelay]

\* The request _translate_official / _translate_http sends: translate calls one of the
\* two with the mapped codes, whatever the source language is.
DeepLRequest(backend, source_lang, target_lang) ==
    [via |-> backend, source_lang |-> DeepLSource(source_lang),
     target_lang |-> DeepLTarget(target_lang)]

\* Answers of the service to one request: a translation with the language it detected,
\* or a body without translations.
DeepLAnswers ==
    {[kind |-> "ok", detected |-> d] : d \in {"AR", "EN", "FR"}} \cup {[kind |-> "empty"]}

\* What a failing request raises: an HTTP status error, a timeout, or the library's own
\* exception, which carries no status_code.
EDeepL == Exc("builtin", "DeepLException", Nil, Nil)
DeepLErrors == {E400, E500, ETimeout, EDeepL}

\* confidence of _translate_official (l.97-99) and of _translate_http (l.166)
DeepLConfidence(backend, source_lang, detected) ==
    IF backend = "deepl_official"
    THEN IF detected = DeepLSource(source_lang) THEN Conf(88) ELSE Conf(85)
    ELSE IF detected = DeepLSource(source_lang) THEN Conf(85) ELSE Conf(80)

\* The result translate returns for an answer; the official library's result always
\* has a text.
DeepLResultOf(backend, source_lang, answer) ==
    IF answer.kind = "empty"
    THEN TranslationResult("deepl", <<>>, Conf(0), "No translations returned from DeepL")
    ELSE TranslationResult("deepl", EnHello,
                           DeepLConfidence(backend, source_lang, answer.detected), NONE)

InitDeepL ==
    /\ dPc = "idle"
    /\ dBackend \in DeepLBackends
    /\ dSourceLang = "ar"
    /\ dTargetLang = "en"
    /\ dAttempt = 0
    /\ dRequests = <<>>
    /\ dSleeps = <<>>
    /\ dResult = Nil

IdleDeepL ==
    /\ dPc = "idle"
    /\ dBackend = "http_direct"
    /\ dSourceLang = "ar"
    /\ dTargetLang = "en"
    /\ dAttempt = 0
    /\ dRequests = <<>>
    /\ dSleeps = <<>>
    /\ dResult = Nil

exceptDeepL ==
    <<retryVars, classifyVars, evalVars, ensembleVars, chunkVars, pipelineVars>>

\* translate_with_timing(text, source_lang, target_lang) enters the retry wrapper.
DeepLTranslateWithTiming(source_lang, target_lang) ==
    /\ dPc = "idle"
    /\ dPc' = "try"
    /\ dSourceLang' = source_lang
    /\ dTargetLang' = target_lang
    /\ dAttempt' = 0
    /\ UNCHANGED <<dBackend, dRequests, dSleeps, dResult, exceptDeepL>>

\* One pass of the loop: translate maps the codes and sends the request, the service
\* answers, translate returns and so do the wrapper and translate_with_timing.
DeepLAttemptReturns(answer) ==
    /\ dPc = "try"
    /\ answer.kind = "empty" => dBackend = "http_direct"
    /\ dRequests' = Append(dRequests, DeepLRequest(dBackend, dSourceLang, dTargetLang))
    /\ dResult' = Some(DeepLResultOf(dBackend, dSourceLang, answer))
    /\ dPc' = "done"
    /\ UNCHANGED <<dBackend, dSourceLang, dTargetLang, dAttempt, dSleeps, exceptDeepL>>

\* One pass of the loop: translate sends the request and the request raises exc.  A
\* client error and the last pass let it out to translate_with_timing, whose except
\* clause turns it into a failed result; otherwise the wrapper sleeps and loops.
DeepLAttemptRaises(exc) ==
    /\ dPc = "try"
    /\ exc = EDeepL => dBackend = "deepl_official"
    /\ exc \in {E400, E500} => dBackend = "http_direct"
    /\ dRequests' = Append(dRequests, DeepLRequest(dBackend, dSourceLang, dTargetLang))
    /\ IF RaisesImmediately(exc) \/ dAttempt >= LastAttempt(DeepLRetry)
       THEN /\ dResult' = Some(TranslationResult("deepl", <<>>, Conf(0), StrOf(exc)))
            /\ dPc' = "done"
            /\ UNCHANGED <<dAttempt, dSleeps>>
       ELSE /\ dSleeps' = Append(dSleeps, BackoffDelay(DeepLRetry, dAttempt))
            /\ dAttempt' = dAttempt + 1
            /\ UNCHANGED <<dPc, dResult>>
    /\ UNCHANGED <<dBackend, dSourceLang, dTargetLang, exceptDeepL>>

NextDeepL ==
    \/ \E sl \in SourceLangs, tl \in TargetLangs : DeepLTranslateWithTiming(sl, tl)
    \/ \E answer \in DeepLAnswers : DeepLAttemptReturns(answer)
    \/ \E exc \in DeepLErrors : DeepLAttemptRaises(exc)

(***************************************************************************)
(* Specifications                                                          *)
(***************************************************************************)
\* One adapter call through translate_with_timing and retry_with_backoff.
InitSpecRetry == InitRetry /\ IdleClassify /\ IdleEval /\ IdleEnsemble /\ IdleChunk /\ IdlePipeline
    /\ IdleDeepL

SpecRetry == InitSpecRetry /\ [][NextRetry]_vars

\* _is_retryable_error on every exception shape.
InitSpecClassify == InitClassify /\ InitRetry /\ IdleEval /\ IdleEnsemble /\ IdleChunk /\ IdlePipeline
    /\ IdleDeepL

SpecClassify == InitSpecClassify /\ [][NextClassify]_vars

\* evaluate_translations on every list of up to MaxCandidates results.
InitSpecEval == InitEval /\ InitRetry /\ IdleClassify /\ IdleEnsemble /\ IdleChunk /\ IdlePipeline
    /\ IdleDeepL

SpecEval == InitSpecEval /\ [][NextEval]_vars

\* TranslationEnsemble.translate on every registry and configuration.
InitSpecEnsemble == InitEnsemble /\ InitRetry /\ IdleClassify /\ IdleEval /\ IdleChunk /\ IdlePipeline
    /\ IdleDeepL

SpecEnsemble == InitSpecEnsemble /\ [][NextEnsemble]_vars

\* The fan-out of translate with backends that may never return.
InitSpecDeadline == InitDeadline /\ InitRetry /\ IdleClassify /\ IdleEval /\ IdleChunk /\ IdlePipeline
    /\ IdleDeepL

SpecDeadline == InitSpecDeadline /\ [][NextDeadline]_vars

\* chunk_text on every text of up to MaxTextLen characters and every window size.
InitSpecChunk == InitChunk /\ InitRetry /\ IdleClassify /\ IdleEval /\ IdleEnsemble /\ IdlePipeline
    /\ IdleDeepL

SpecChunk == InitSpecChunk /\ [][NextChunk]_vars

\* chunk_text is straight-line code on the caller's thread: it keeps running until it
\* returns.
SpecChunkFair == InitSpecChunk /\ [][NextChunk]_vars /\ WF_vars(NextChunk)

\* translate_text over the ensemble, chunk after chunk.
InitSpecPipeline ==
    InitPipeline /\ InitPipelineEnsemble /\ InitRetry /\ IdleClassify /\ IdleEval /\ IdleChunk
    /\ IdleDeepL

SpecPipeline == InitSpecPipeline /\ [][NextPipeline]_vars

\* One DeepL call through translate_with_timing.
InitSpecDeepL ==
    InitDeepL /\ InitRetry /\ IdleClassify /\ IdleEval /\ IdleEnsemble /\ IdleChunk
    /\ IdlePipeline

SpecDeepL == InitSpecDeepL /\ [][NextDeepL]_vars

(***************************************************************************)
(* Properties of the retry wrapper (SpecRetry)                             *)
(***************************************************************************)
Is4xx(st) == st # Nil /\ 400 <= st[1] /\ st[1] < 500

\* The exception carries HTTP status s, on itself or on its response.
HasStatus(exc, s) == s \in {exc.status_code[i] : i \in DOMAIN exc.status_code}
                          \cup {exc.response[i] : i \in DOMAIN exc.response}

\* C1: when the first invocation raises an error that _is_retryable_error classifies
\* as non-retryable, the wrapped operation is invoked exactly once, nothing is slept
\* and that same error propagates to the caller.
C1_NonRetryableShortcut ==
    (/\ Len(history) >= 1
     /\ history[1].kind = "raise"
     /\ ~IsRetryableError(history[1].value))
    => /\ invocations = 1
       /\ Len(history) = 1
       /\ sleeps = <<>>
       /\ rPc = "done"
       /\ raised = Some(history[1].value)

C1_Witness ==
    /\ rPc = "done"
    /\ history = <<Raised(E400)>>
    /\ raised = Some(E400)
    /\ invocations = 1

AllRetryableFailures ==
    \A i \in 1..Len(history) :
        history[i].kind = "raise" /\ IsRetryableError(history[i].value)

\* C2: an operation that fails with a retryable error on every invocation is invoked
\* max_retries+1 times, the k-th failure (k = 0..max_retries-1) is followed by a sleep
\* of min(base_delay*2^k, max_delay), the last failure by none, and then the last
\* error is raised; a successful invocation is the last one and its value is returned.
C2_BackoffSchedule ==
    /\ invocations <= rCfg.max_retries + 1
    /\ AllRetryableFailures =>
          /\ Len(sleeps) = Min(Len(history), rCfg.max_retries)
          /\ \A k \in 1..Len(sleeps) :
                sleeps[k] = Min(rCfg.base_delay * Pow2(k - 1), rCfg.max_delay)
          /\ rPc = "done" =>
                /\ invocations = rCfg.max_retries + 1
                /\ raised = Some(history[Len(history)].value)
          /\ (rPc # "idle" /\ Len(history) <= rCfg.max_retries) => rPc \in {"try", "sleep"}
    /\ \A i \in 1..Len(history) :
          history[i].kind = "return" =>
             /\ i = Len(history)
             /\ invocations = i
             /\ rPc = "done"
             /\ rResult = Some(history[i].value)
             /\ raised = Nil

C2_Witness ==
    /\ rPc = "done"
    /\ rCfg = [max_retries |-> 3, base_delay |-> 4, max_delay |-> 5]
    /\ history = <<Raised(E500), Raised(ETimeout), Raised(E500), Raised(E500)>>
    /\ sleeps = <<4, 5, 5>>
    /\ raised = Some(E500)

\* C3: with max_retries = 3, a backend that fails three times with status 500 and
\* then succeeds yields a successful result after exactly four invocations; a backend
\* that fails once with status 400 yields a failed result (error set, empty text)
\* after exactly one invocation.
C3_RetryScenarios ==
    rCfg.max_retries = 3 =>
      /\ (/\ Len(history) >= 3
          /\ \A i \in 1..3 : history[i].kind = "raise" /\ HasStatus(history[i].value, 500))
         => /\ Len(history) = 3 => rPc \in {"try", "sleep"} /\ rResult = Nil
            /\ (/\ Len(history) >= 4
                /\ history[4].kind = "return"
                /\ is_successful(history[4].value))
               => /\ rPc = "done"
                  /\ invocations = 4
                  /\ rResult = Some(history[4].value)
                  /\ is_successful(rResult[1])
      /\ (/\ Len(history) >= 1
          /\ history[1].kind = "raise"
          /\ HasStatus(history[1].value, 400))
         => /\ rPc = "done"
            /\ invocations = 1
            /\ rResult # Nil
            /\ rResult[1].error # NONE
            /\ rResult[1].translated_text = <<>>
            /\ ~is_successful(rResult[1])

C3_Witness ==
    /\ rPc = "done"
    /\ rCfg.max_retries = 3
    /\ history = <<Raised(E500), Raised(E500), Raised(E500),
                   Returned(TranslationResult("adapter", EnHello, Conf(90), NONE))>>
    /\ invocations = 4
    /\ is_successful(rResult[1])

\* C6 (as claimed): translate_with_timing handed an empty or whitespace-only text
\* returns a failed result (error set, confidence 0.0) and never calls translate.
C6_EmptyTextRejected ==
    (rPc # "idle" /\ Strip(rText) = <<>>) =>
       /\ invocations = 0
       /\ rPc = "done" =>
            /\ rResult # Nil
            /\ rResult[1].error # NONE
            /\ rResult[1].confidence = Conf(0)
            /\ ~is_successful(rResult[1])

\* C13: translate_with_timing never raises.  Whenever the retry-wrapped translate lets
\* an exception out (retries exhausted, or a non-retryable error), the call ends with a
\* result whose method is the adapter's method_name, whose translated_text is empty,
\* whose confidence is 0.0 and whose error is the text of that exception.
C13_ErrorsBecomeResults ==
    rPc = "done" =>
       /\ rResult # Nil
       /\ raised # Nil =>
            rResult[1] = TranslationResult("adapter", <<>>, Conf(0), StrOf(raised[1]))
       /\ raised # Nil => ~is_successful(rResult[1])

C13_Witness ==
    /\ rPc = "done"
    /\ raised = Some(E500)
    /\ invocations = 4
    /\ rResult[1].error = StrOf(E500)

(***************************************************************************)
(* Properties of _is_retryable_error (SpecClassify)                        *)
(***************************************************************************)
\* C4 (as claimed): the verdict is non-retryable exactly when the error is an SDK
\* client-error type or carries a status in [400, 500) as its own status_code or as
\* the status_code of its response.
C4_ClassifierAsClaimed ==
    cVerdict # "unset" =>
       (cVerdict = "non-retryable"
          <=> \/ cExc.sdk \in {"anthropic", "openai"} /\ cExc.cls \in ClientErrorClasses
              \/ Is4xx(cExc.status_code)
              \/ Is4xx(cExc.response))

\* C4 (amended): the verdict is non-retryable exactly when the error is an SDK
\* client-error type, or its own status_code is in [400, 500), or its own status_code
\* is absent or 0 and the status_code of its response is in [400, 500).
C4_Classifier ==
    cVerdict # "unset" =>
       (cVerdict = "non-retryable"
          <=> \/ cExc.sdk \in {"anthropic", "openai"} /\ cExc.cls \in ClientErrorClasses
              \/ Is4xx(cExc.status_code)
              \/ cExc.status_code \in {Nil, Some(0)} /\ Is4xx(cExc.response))

C4_Witness ==
    /\ cVerdict = "non-retryable"
    /\ cExc.sdk = "builtin"
    /\ cExc.status_code = Nil
    /\ cExc.response = Some(404)

(***************************************************************************)
(* Properties of TranslationEnsemble.translate (SpecEnsemble)              *)
(***************************************************************************)
\* C5 (as claimed): translate handed an empty or whitespace-only text invokes translate
\* on no registered backend and returns an error, whatever the registry and the flags.
C5_BlankTextInvokesNoBackend ==
    (tPc # "ready" /\ Strip(tText) = <<>>) =>
       /\ \A m \in MethodNames : translateCalls[m] = 0
       /\ tPc = "done" => tReturn[1].best.error # NONE

\* C7: with exactly one backend B registered, a finished translate has invoked B
\* exactly once and no other backend, returns B's result as the winner and as the only
\* element of the list, returns no quality report and has not called the evaluator,
\* whether B succeeded or failed.
C7_SingleBackend ==
    (tPc = "done" /\ Len(translators) = 1) =>
       /\ translateCalls[translators[1]] = 1
       /\ \A m \in MethodNames \ {translators[1]} : translateCalls[m] = 0
       /\ tReturn[1].best.method = translators[1]
       /\ tReturn[1].all = <<tReturn[1].best>>
       /\ tReturn[1].quality = Nil
       /\ evaluatorCalls = 0

C7_Witness ==
    /\ tPc = "done"
    /\ Len(translators) = 1
    /\ ~enable_ensemble
    /\ ~force_multi_method
    /\ ~is_successful(tReturn[1].best)
    /\ translateCalls[translators[1]] = 1

\* C11 (as claimed): when every backend that was called returned a failed result, the
\* winner translate returns is none of these failed results (an aggregated error is
\* surfaced instead).
C11_AllFailedNotReturnedAsWinner ==
    (tPc = "done"
       /\ \A i \in 1..Len(tReturn[1].all) : ~is_successful(tReturn[1].all[i])) =>
       \A i \in 1..Len(tReturn[1].all) : tReturn[1].best # tReturn[1].all[i]

\* C12: with two or more backends registered, a finished translate whose list of
\* results holds a successful one returns a successful winner, whatever the flags and
\* whichever other backends failed.  (A result the preferred-order loop drops is a
\* failed one: a successful one is returned at once.)
\* C14: when a backend has not returned by the chunk deadline the orchestrator stops
\* waiting, so once the deadline has elapsed in the fan-out the dispatch can still go on:
\* some step of translate is possible until it has returned.
C14_DispatchEndsAfterDeadline ==
    (tPc = "fanout" /\ deadlineElapsed) => ENABLED NextDeadline

C12_WinnerIsSuccessful ==
    (tPc = "done" /\ Len(translators) >= 2
       /\ \E i \in 1..Len(tReturn[1].all) : is_successful(tReturn[1].all[i])) =>
       /\ is_successful(tReturn[1].best)
       /\ \E i \in 1..Len(tReturn[1].all) : tReturn[1].all[i] = tReturn[1].best

C12_Witness ==
    /\ tPc = "done"
    /\ Len(translators) >= 2
    /\ ~enable_ensemble
    /\ ~force_multi_method
    /\ Len(results) >= 2
    /\ ~is_successful(results[1])
    /\ \E i \in 2..Len(results) : is_successful(results[i])
    /\ is_successful(tReturn[1].best)

\* The list seq in the order perm
Permuted(seq, perm) == [i \in 1..Len(seq) |-> seq[perm[i]]]

\* C10 (as claimed): when a fan-out has returned, the winner is the one _run_ensemble
\* picks for every other order in which the same results could have completed.
C10_WinnerIndependentOfCompletionOrder ==
    (tPc = "done" /\ results # <<>>) =>
       \A perm \in Permutations(1..Len(results)) :
          SelectBest(tText, Permuted(results, perm), judgeClient, tReply).best.method
             = tReturn[1].best.method

(***************************************************************************)
(* Properties of evaluate_translations (SpecEval)                          *)
(***************************************************************************)
\* C8 (as claimed): when the list holds at least one successful candidate (no error,
\* non-blank text), best_method names a successful candidate of the list.
C8_BestMethodIsSuccessful ==
    (ePc = "done" /\ \E i \in 1..Len(eTranslations) : is_successful(eTranslations[i])) =>
       \E i \in 1..Len(eTranslations) :
          /\ eTranslations[i].method = eResult[1].best_method
          /\ is_successful(eTranslations[i])

\* C9 (as claimed): best_method is the same for every permutation of the list.
C9_BestMethodIndependentOfOrder ==
    ePc = "done" =>
       \A perm \in Permutations(1..Len(eTranslations)) :
          EvaluateTranslations(eSource, Permuted(eTranslations, perm),
                               eJudgeClient, eReply).best_method
             = eResult[1].best_method


InUnit(x) == RLe(RInt(0), x) /\ RLe(x, RInt(1))

\* C22: every value of the report's dimension_scores, the judge's dimensions included,
\* and every per-backend total lies in [0, 1] (the candidates' confidences do).
C22_ScoresInUnitInterval ==
    (ePc = "done" /\ Len(eTranslations) >= 2) =>
       \A m \in DOMAIN eResult[1].scores :
          /\ InUnit(eResult[1].scores[m])
          /\ \A dim \in DOMAIN eResult[1].dimension_scores[m] :
                InUnit(eResult[1].dimension_scores[m][dim])
          /\ \A k \in DOMAIN eResult[1].judge_dimensions[m] :
                InUnit(eResult[1].judge_dimensions[m][k])

\* The position of translations[i] among the successful results of the list.
RankAmongSuccessful(translations, i) ==
    Cardinality({j \in 1..i : is_successful(translations[j])})

\* C23: for a successful candidate c of the list, one more successful candidate with
\* c's text does not lower c's cross_agreement, and c's cross_agreement is what it
\* would be with the failed candidates taken off the list.
C23_DuplicateNeverLowersAgreement ==
    \A i \in 1..Len(eTranslations) :
       is_successful(eTranslations[i]) =>
          /\ \A m \in MethodNames \ MethodsOf(eTranslations) :
                RLe(CrossAgreement(eTranslations, i),
                    CrossAgreement(Append(eTranslations,
                                          TranslationResult(m, eTranslations[i].translated_text,
                                                            eTranslations[i].confidence, NONE)),
                                   i))
          /\ CrossAgreement(eTranslations, i)
                = CrossAgreement(Successful(eTranslations),
                                 RankAmongSuccessful(eTranslations, i))

\* claude and google succeeded with different texts and deepl failed with a text:
\* claude's agreement is its similarity to google's text alone, 1/3.
C23_Witness ==
    /\ ePc = "done"
    /\ eTranslations = <<ResultOf("claude", PGood), ResultOf("google", PLeftover),
                         ResultOf("deepl", PFailedWithText)>>
    /\ eResult[1].dimension_scores["claude"].cross_agreement = R(1, 3)
    /\ CrossAgreement(Append(eTranslations, ResultOf("openai", PGood)), 1) = R(2, 3)

\* The automated total of method m, from the dimension scores of the report.
AutomatedTotal(m) == WeightedTotal(eResult[1].dimension_scores[m])

\* C24: the judge is called only by an evaluator with a judge client, on two or more
\* candidates whose two highest automated totals are less than 0.10 apart; when it is
\* not called judge_used is false and the scores are the automated totals (the
\* self-reported confidence for a single candidate).
C24_JudgeOnlyWhenClose ==
    (ePc = "done" /\ eTranslations # <<>>) =>
       \E auto \in {[m \in DOMAIN eResult[1].scores |->
                       IF Len(eTranslations) = 1 THEN eTranslations[1].confidence
                       ELSE AutomatedTotal(m)]} :
          /\ eResult[1].judge_called =>
                /\ eJudgeClient
                /\ Len(eTranslations) >= 2
                /\ \E m1 \in DOMAIN auto :
                      \E m2 \in DOMAIN auto \ {m1} :
                         /\ \A m \in DOMAIN auto : RLe(auto[m], auto[m1])
                         /\ \A m \in DOMAIN auto \ {m1} : RLe(auto[m], auto[m2])
                         /\ RLt(RSub(auto[m1], auto[m2]), R(10, 100))
          /\ ~eResult[1].judge_called =>
                /\ ~eResult[1].judge_used
                /\ \A m \in DOMAIN auto :
                      /\ eResult[1].judge_dimensions[m] = <<>>
                      /\ eResult[1].scores[m] = auto[m]

\* An evaluator with a judge client and two candidates whose totals are 0.511 and
\* 0.7985: the judge is not called.
C24_Witness ==
    /\ ePc = "done"
    /\ eJudgeClient
    /\ eTranslations = <<ResultOf("claude", PChoppy), ResultOf("google", PGood)>>
    /\ ~eResult[1].judge_called
    /\ eResult[1].scores["google"] = R(7985, 10000)

\* C25: when the judge call raises or its answer holds no JSON object,
\* evaluate_translations still returns a report, with judge_used false, an empty
\* reasoning, no judge dimension and every score equal to its automated total.
C25_JudgeFailureFallsBack ==
    (ePc = "done" /\ eResult[1].judge_called /\ eReply.kind \in {"error", "nojson"}) =>
       /\ ~eResult[1].judge_used
       /\ eResult[1].reasoning = ""
       /\ DOMAIN eResult[1].scores = MethodsOf(eTranslations)
       /\ \A m \in DOMAIN eResult[1].scores :
             /\ eResult[1].judge_dimensions[m] = <<>>
             /\ eResult[1].scores[m] = AutomatedTotal(m)

\* Three successful candidates with close totals, a judge whose answer holds no JSON.
C25_Witness ==
    /\ ePc = "done"
    /\ eResult[1].judge_called
    /\ eReply = JudgeNoJson
    /\ Len(eTranslations) = 3
    /\ \A i \in 1..3 : is_successful(eTranslations[i])
    /\ eResult[1].best_method = eTranslations[1].method

\* The mean of the judge's scores for method m, each divided by 10.
JudgeScore(m) ==
    RDiv(RSum([k \in 1..Len(eReply.evaluations[m]) |-> R(eReply.evaluations[m][k], 10)]),
         RInt(Len(eReply.evaluations[m])))

\* C26: when the judge gave a parsed result, the final score of every backend of the
\* report is 0.6 * judge score + 0.4 * automated total; none keeps its automated total.
C26_EveryScoreBlended ==
    (ePc = "done" /\ eResult[1].judge_used) =>
       \A m \in DOMAIN eResult[1].scores :
          /\ m \in DOMAIN eReply.evaluations
          /\ eResult[1].scores[m] =
                RAdd(RMul(R(6, 10), JudgeScore(m)), RMul(R(4, 10), AutomatedTotal(m)))

\* C15: every chunk chunk_text returns has at most max_chars characters.
C15_ChunksWithinMaxChars ==
    kPc = "done" => \A i \in 1..Len(kReturn[1]) : Len(kReturn[1][i]) <= kMaxChars

\* A text that was split at a sentence end, with a chunk that fills its window.
C15_Witness ==
    /\ kPc = "done"
    /\ Len(kText) > kMaxChars
    /\ Len(kReturn[1]) >= 2
    /\ kReturn[1][1] = <<"a", ".">>
    /\ \E i \in 1..Len(kReturn[1]) : Len(kReturn[1][i]) = kMaxChars

\* The whitespace-separated tokens of all the chunks, in order.
RECURSIVE ChunkTokens(_)
ChunkTokens(cs) == IF cs = <<>> THEN <<>> ELSE Words(Head(cs)) \o ChunkTokens(Tail(cs))

TokenCount(tokens, t) == Cardinality({i \in 1..Len(tokens) : tokens[i] = t})

RECURSIVE ChunkLetters(_)
ChunkLetters(cs) ==
    IF cs = <<>> THEN <<>>
    ELSE SelectSeq(Head(cs), LAMBDA c : c \notin Whitespace) \o ChunkLetters(Tail(cs))

C17_ShortTextIsOneChunk ==
    (kPc = "done" /\ Len(kText) <= kMaxChars) => kReturn[1] = <<kText>>

\* A text of exactly max_chars characters that strip() would have changed.
C17_Witness ==
    /\ kPc = "done"
    /\ Len(kText) = kMaxChars
    /\ kText[1] = " "
    /\ kReturn[1] = <<kText>>

IsTrimmed(c) == c # <<>> /\ c[1] \notin Whitespace /\ c[Len(c)] \notin Whitespace

\* C18 as stated: every chunk chunk_text returns is non-empty and has no leading or
\* trailing whitespace.
C18_ChunksNonEmptyAndTrimmed ==
    kPc = "done" => \A i \in 1..Len(kReturn[1]) : IsTrimmed(kReturn[1][i])

\* C18: when the text is longer than max_chars, every chunk chunk_text returns is
\* non-empty and has no leading or trailing whitespace; a text of at most max_chars
\* characters is returned as it is, empty or padded.
C18_LongTextChunksNonEmptyAndTrimmed ==
    /\ (kPc = "done" /\ Len(kText) > kMaxChars) =>
          \A i \in 1..Len(kReturn[1]) : IsTrimmed(kReturn[1][i])
    /\ (kPc = "done" /\ Len(kText) <= kMaxChars) => kReturn[1] = <<kText>>

\* A long text with a piece that strip() emptied and the filter dropped, and a piece
\* that strip() shortened.
C18_Witness ==
    /\ kPc = "done"
    /\ Len(kText) > kMaxChars
    /\ Len(kReturn[1]) >= 1
    /\ Len(kReturn[1]) < Len(chunks)
    /\ kText[Len(kText)] \in Whitespace
    /\ kText[Len(kText) - 1] \notin Whitespace


\* The entries of the history for backend calls that started.
CallEvents == {k \in 1..Len(timeline) : timeline[k].ev = "call"}

\* C19: over two or more chunks, every backend call for the n-th chunk gets that chunk
\* as its text and the source text of the chunk before it as its context, and the
\* calls for the first chunk get no context.
C19_ContextIsPrecedingChunk ==
    (pPc \in {"loop", "translating", "done"} /\ Len(pChunks) >= 2) =>
       \A k \in CallEvents :
          /\ timeline[k].n \in 1..Len(pChunks)
          /\ timeline[k].text = pChunks[timeline[k].n]
          /\ timeline[k].context =
                (IF timeline[k].n = 1 THEN Nil ELSE Some(pChunks[timeline[k].n - 1]))

\* Three chunks through the fan-out: both backends were called for the third chunk
\* with the second chunk as context, after a winner for the second was recorded.
C19_Witness ==
    /\ pPc = "translating"
    /\ Len(pChunks) = 3
    /\ tCall = 3
    /\ tPc = "fanout"
    /\ pending = {"claude", "google"}
    /\ tContext = Some(pChunks[2])
    /\ Len(all_best_translations) = 2
    /\ \E k \in CallEvents :
          timeline[k].n = 3 /\ timeline[k].method = "google"
             /\ timeline[k].context = Some(SubSeq(SrcNews, 8, 10))

\* The backend calls of the n-th translate that have started before position k of the
\* history and not returned before it.
InFlightBefore(k, n) ==
    {timeline[a].method : a \in {c \in CallEvents : c < k /\ timeline[c].n = n}}
       \ {timeline[b].method : b \in {r \in 1..(k - 1) :
                                        timeline[r].ev = "return" /\ timeline[r].n = n}}

\* C20: chunks are dispatched in index order and one at a time: when a backend call
\* for a chunk starts, every backend call of every earlier chunk has returned, the
\* winner of every earlier chunk has been recorded, and no call of a later chunk has
\* started.
C20_ChunksDispatchedSerially ==
    \A k \in CallEvents :
       /\ \A j \in 1..(timeline[k].n - 1) :
             /\ InFlightBefore(k, j) = {}
             /\ \E r \in 1..(k - 1) : timeline[r].ev = "record" /\ timeline[r].n = j
       /\ \A c \in CallEvents : c < k => timeline[c].n <= timeline[k].n
       /\ Len(pChunks) >= 2 => timeline[k].text = pChunks[timeline[k].n]

\* Three chunks, all through the fan-out, with the backends completing in a different
\* order for different chunks.
C20_Witness ==
    /\ pPc = "done"
    /\ Len(pChunks) = 3
    /\ enable_ensemble
    /\ Len(all_results_combined) = 6
    /\ all_results_combined[1].method = "google"
    /\ all_results_combined[3].method = "claude"
    /\ Cardinality(CallEvents) = 6


\* The winners' texts of the chunk returns from the k-th on, each preceded by a space.
RECURSIVE SpacedWinners(_, _)
SpacedWinners(returns, k) ==
    IF k > Len(returns) THEN <<>>
    ELSE <<" ">> \o returns[k].best.translated_text \o SpacedWinners(returns, k + 1)

\* The candidate lists of the chunk returns from the k-th on, one after the other.
RECURSIVE CandidatesFrom(_, _)
CandidatesFrom(returns, k) ==
    IF k > Len(returns) THEN <<>> ELSE returns[k].all \o CandidatesFrom(returns, k + 1)

\* C21: for an input of several chunks translate_text returns the winners' texts joined
\* by one space in chunk order, the chunks' candidate lists one after the other in
\* chunk order, and the quality report of the last chunk.
C21_ChunkedResultAssembled ==
    (pPc = "done" /\ Len(pChunks) >= 2) =>
       /\ Len(chunkReturns) = Len(pChunks)
       /\ pReturn[1].best.translated_text =
             chunkReturns[1].best.translated_text \o SpacedWinners(chunkReturns, 2)
       /\ pReturn[1].all = CandidatesFrom(chunkReturns, 1)
       /\ pReturn[1].quality = chunkReturns[Len(chunkReturns)].quality

\* Three chunks with different winners' texts, the first chunk evaluated and the last
\* one returned by the preferred pass without a quality report.
C21_Witness ==
    /\ pPc = "done"
    /\ Len(pChunks) = 3
    /\ chunkReturns[1].best.translated_text = EnLeftover
    /\ chunkReturns[2].best.translated_text = EnHelloWorld
    /\ chunkReturns[1].quality # Nil
    /\ chunkReturns[3].quality = Nil
    /\ pReturn[1].quality = Nil


\* C30: chunk_text terminates: every pass of the while loop that does not leave the
\* loop moves the cursor strictly forward, and the call reaches its return.
C30_ChunkTextTerminates ==
    /\ [][(kPc = "loop" /\ kPc' = "loop") => (start' > start /\ start' < Len(kText))]_vars
    /\ <>(kPc = "done")

\* "aaa .a" with max_chars = 2: a split at start + max_chars, one at the last space,
\* one after a sentence end, then the last window.
C30_Witness ==
    /\ kPc = "done"
    /\ kMaxChars = 2
    /\ kText = <<"a", "a", "a", " ", ".", "a">>
    /\ chunks = << <<"a", "a">>, <<"a">>, <<".">>, <<"a">> >>


\* The registered methods in the order claude, deepl, openai, google.
PreferredRegistered ==
    LET order == <<"claude", "deepl", "openai", "google">>
        at == {i \in 1..4 : order[i] \in Registered(translators)}
    IN  [k \in 1..Cardinality(at) |-> order[NthOf(at, k)]]

\* The first 2 * k entries of the history are the calls of the first k registered
\* methods of the preferred order, one at a time: each call returns before the next
\* starts.
OneAtATime(k) ==
    /\ Len(timeline) >= 2 * k
    /\ \A i \in 1..k :
          /\ timeline[2 * i - 1].ev = "call"
          /\ timeline[2 * i - 1].method = PreferredRegistered[i]
          /\ timeline[2 * i].ev = "return"
          /\ timeline[2 * i].method = PreferredRegistered[i]

\* C29: with two or more backends and the ensemble disabled, translate calls the
\* registered backends one at a time in the order claude, deepl, openai, google; the
\* first successful result is returned alone, without a quality report and without a
\* call of any later backend; the parallel ensemble runs only after every one of them
\* has failed.
C29_PreferredPass ==
    (Len(translators) >= 2 /\ ~enable_ensemble /\ ~force_multi_method) =>
       /\ tPc = "preferred" => pending = {} /\ Len(timeline) % 2 = 0
                                  /\ OneAtATime(Len(timeline) \div 2)
       /\ (tPc = "done" /\ results = <<>>) =>
             /\ OneAtATime(Len(timeline) \div 2)
             /\ Len(timeline) % 2 = 0
             /\ \A i \in 1..(Len(timeline) \div 2 - 1) :
                   ~is_successful(timeline[2 * i].result[1])
             /\ is_successful(tReturn[1].best)
             /\ tReturn[1].best = timeline[Len(timeline)].result[1]
             /\ tReturn[1].all = <<tReturn[1].best>>
             /\ tReturn[1].quality = Nil
             /\ \A m \in MethodNames :
                   translateCalls[m] =
                      (IF \E i \in 1..(Len(timeline) \div 2) : PreferredRegistered[i] = m
                       THEN 1 ELSE 0)
       /\ tPc = "fanout" \/ (tPc = "done" /\ results # <<>>) =>
             /\ OneAtATime(Len(translators))
             /\ \A i \in 1..Len(translators) : ~is_successful(timeline[2 * i].result[1])
             /\ \A k \in (2 * Len(translators) + 1)..Len(timeline) :
                   timeline[k].ev = "call" => k <= 3 * Len(translators)

\* Three backends registered as claude, google, deepl: claude failed, deepl was tried
\* next and succeeded, google was never called.
C29_Witness ==
    /\ tPc = "done"
    /\ translators = <<"claude", "google", "deepl">>
    /\ ~enable_ensemble /\ ~force_multi_method
    /\ tReturn[1].best.method = "deepl"
    /\ translateCalls["claude"] = 1
    /\ translateCalls["google"] = 0
    /\ Len(timeline) = 4


\* How many calls of method m the history holds, and how many of them returned.
CallsOf(m) == Cardinality({k \in 1..Len(timeline) :
                              timeline[k].ev = "call" /\ timeline[k].method = m})
ReturnsOf(m) == Cardinality({k \in 1..Len(timeline) :
                                timeline[k].ev = "return" /\ timeline[k].method = m})

\* The calls made by the preferred pass before the fan-out: one per registered method.
BeforeFanOut == IF ~enable_ensemble /\ ~force_multi_method THEN 1 ELSE 0

\* The fan-out of _run_ensemble has started.
InFanOut == Len(translators) >= 2 /\ (tPc = "fanout" \/ (tPc = "done" /\ results # <<>>))

\* C28: in a fan-out every registered backend is submitted exactly once, and the list
\* of candidates gets exactly one candidate per registered backend, whatever the order
\* of completion and whichever calls fail; the list grows only by the orchestrator's
\* own append, one candidate for one future that is taken off the waiting set.
C28_OneCandidatePerBackend ==
    /\ [](InFanOut =>
            /\ \A m \in MethodNames :
                  CallsOf(m) = (IF m \in Registered(translators) THEN 1 + BeforeFanOut ELSE 0)
            /\ \A i, j \in 1..Len(results) : results[i].method = results[j].method => i = j
            /\ {results[i].method : i \in 1..Len(results)} = Registered(translators) \ pending
            /\ \A m \in Registered(translators) \ pending : ReturnsOf(m) = 1 + BeforeFanOut
            /\ tPc = "done" =>
                  /\ Len(tReturn[1].all) = Len(translators)
                  /\ tReturn[1].all = results)
    /\ [][results' # results =>
             /\ tPc = "fanout" /\ tPc' = "fanout"
             /\ \E m \in pending :
                   /\ pending' = pending \ {m}
                   /\ Len(results') = Len(results) + 1
                   /\ SubSeq(results', 1, Len(results)) = results
                   /\ results'[Len(results')].method = m]_vars

\* Three backends with the ensemble enabled, completing in an order that is not the
\* order of registration, the first to complete with a failure.
C28_Witness ==
    /\ tPc = "done"
    /\ enable_ensemble
    /\ translators = <<"claude", "google", "deepl">>
    /\ Len(results) = 3
    /\ results[1].method = "deepl" /\ ~is_successful(results[1])
    /\ results[2].method = "claude"
    /\ results[3].method = "google"

(***************************************************************************)
(* Properties of the DeepL adapter (SpecDeepL)                             *)
(***************************************************************************)
\* C27: a DeepL call with source_lang "ar" ends in a client error that is not retried,
\* after exactly one attempt and without a request having been sent to the service.
C27_ArabicRejectedBeforeRequest ==
    (dPc = "done" /\ dSourceLang = "ar") =>
       /\ dRequests = <<>>
       /\ dAttempt = 0
       /\ dSleeps = <<>>
       /\ dResult # Nil
       /\ dResult[1].error # NONE

====
